---- MODULE Spec2Model ----
(***************************************************************************)
(* Per-call media pipeline of the voice agent (src/server.js) together     *)
(* with the streaming LLM client it drives (aiService, src/unnamed/        *)
(* part_005).  One session is modelled.  Node.js runs one synchronous      *)
(* segment at a time: every action below is one such segment, from the     *)
(* event or promise resolution that starts it up to the awaits that        *)
(* suspend it, including the promise continuations (.then/.catch/.finally  *)
(* and resumed awaits) that run as microtasks before the next event.       *)
(***************************************************************************)
EXTENDS Integers, Sequences, FiniteSets, TLC

(***************************************************************************)
(* Bounds of the model.                                                    *)
(***************************************************************************)
\* turns (processUserAudio runs that reach STT) per session, and LLM deltas
\* per turn: of a whole session (Spec), of one reply in detail (SpecReply),
\* of successive turns (SpecTurns)
SessionTurns == 1
SessionDeltas == 1
ReplyTurns == 1
ReplyDeltas == 2
MaxTurns == 2
TurnsDeltas == 1
\* inbound media frames held in session.audioBuffer while a turn is in flight
MaxBuffered == 1
\* PCM chunks of one synthesized utterance
MaxChunks == 2
\* greeting attempts (a failed greeting may be retried)
MaxGreetings == 1
\* calls of loadPersonaFromMongo and of updatePersona, minutes of clock
MaxLoads == 2
MaxUpdates == 1
MaxMinutes == 7
\* calls of loadAllChunks and of the upload and delete routes, clock ticks
MaxChunkLoads == 2
MaxWrites == 2
MaxKbClock == 4
\* words of a query, repetitions of a word in a chunk, chunks scored
MaxQueryWords == 2
MaxRepeat == 8
\* bytes of a PCM buffer and bytes of a frame in the framing specification
MaxPcm == 6
MaxFrame == 4
\* characters of a text and of a window in the chunker specification; the
\* long text, with a full stop every LongPeriod characters, its window and
\* its overlap
MaxText == 3
MaxSize == 3
\* characters of a text of letters and full stops, and of its window
MaxSentence == 6
MaxWindow == 5
LongLength == 240
LongPeriod == 20
LongSize == 40
LongOverlap == 35
\* lines of an SSE stream
MaxLines == 2
\* characters of a short reply
MaxReply == 4
\* connections the server accepts
MaxConns == 3
\* characters of a reply that is split into deltas in every way
MaxSpoken == 6
\* characters and word length of a reply without sentence end
LongReplyLen == 60
LongWord == 6
\* greeting attempts of the greeting specification (SpecGreeting)
GreetingAttempts == 2

(***************************************************************************)
(* Program constants.                                                      *)
(***************************************************************************)
\* session.sampleRate when the query parameter is absent
SampleRate == 16000
\* onToken: minimum words before a flush without sentence end
MinWordsForTTS == 8
\* onToken: a flushed fragment must be longer than this
MinSpeakLen == 3
\* onToken: buffer length above which a word-boundary flush is tried
ForceFlushLen == 50
\* onToken: lastIndexOf(' ', 100)
WordBoundaryFrom == 100
\* onToken: the word boundary must lie past this index
WordBoundaryMin == 20
\* processUserAudio: |sample| above this counts as non-silent
SilenceAmplitude == 100
\* sendFallbackSilence: seconds of silence
SilenceDuration == 1

Null == "null"
\* stream_sid values a carrier message may carry
Sids == {Null, "S1", "S2"}
\* ws.readyState: OPEN, CLOSING, CLOSED
WsOpen == 1
WsClosing == 2
WsClosed == 3

(***************************************************************************)
(* Text: a string is a sequence of one-character strings.                  *)
(***************************************************************************)
IsSpace(c) == c \in {" ", "\n", "\r"}

IsEnder(c) == c \in {".", "!", "?"}

RECURSIVE TrimLeft(_)
TrimLeft(s) ==
  IF s # <<>> /\ IsSpace(Head(s)) THEN TrimLeft(Tail(s)) ELSE s

RECURSIVE TrimRight(_)
TrimRight(s) ==
  IF s # <<>> /\ IsSpace(s[Len(s)]) THEN TrimRight(SubSeq(s, 1, Len(s) - 1)) ELSE s

Trim(s) == TrimRight(TrimLeft(s))

\* sentenceEnders.test(s) with sentenceEnders = /[.!?]\s*/
HasSentenceEnd(s) == \E i \in 1..Len(s) : IsEnder(s[i])

\* length of the match of /^([^.!?]*[.!?]\s*)/ on s (0 when there is none)
MatchLen(s) ==
  IF ~HasSentenceEnd(s) THEN 0
  ELSE LET p == CHOOSE i \in 1..Len(s) :
                  IsEnder(s[i]) /\ \A j \in 1..(i - 1) : ~IsEnder(s[j])
           \* the whitespace run after the terminator
           q == CHOOSE k \in p..Len(s) :
                  /\ \A j \in (p + 1)..k : IsSpace(s[j])
                  /\ (k = Len(s) \/ ~IsSpace(s[k + 1]))
       IN q

\* s.trim().split(/\s+/).length
WordCount(s) ==
  LET t == Trim(s)
  IN IF t = <<>> THEN 1
     ELSE Cardinality({i \in 1..Len(t) :
                         ~IsSpace(t[i]) /\ (i = 1 \/ IsSpace(t[i - 1]))})

\* s.lastIndexOf(c, from): 0-based index, -1 when absent
LastIndexOf(s, c, from) ==
  LET hits == {i \in 0..(Len(s) - 1) : i <= from /\ s[i + 1] = c}
  IN IF hits = {} THEN -1 ELSE CHOOSE i \in hits : \A j \in hits : j <= i

NoFlush == [speak |-> <<>>, rest |-> <<>>]

\* onToken, non-final branch: the fragment cut from the token buffer and the
\* remainder (speak = <<>> when nothing could be cut)
ExtractSentence(buf) ==
  IF HasSentenceEnd(buf)
  THEN LET m == MatchLen(buf)
       IN [speak |-> Trim(SubSeq(buf, 1, m)), rest |-> SubSeq(buf, m + 1, Len(buf))]
  ELSE LET wb == LastIndexOf(buf, " ", WordBoundaryFrom)
       IN IF wb > WordBoundaryMin
          THEN [speak |-> Trim(SubSeq(buf, 1, wb)),
                rest |-> Trim(SubSeq(buf, wb + 1, Len(buf)))]
          ELSE NoFlush

\* onToken: does this buffer flush, and with what
ShouldFlush(buf) ==
  /\ HasSentenceEnd(buf) \/ (WordCount(buf) >= MinWordsForTTS /\ Len(buf) > ForceFlushLen)
  /\ Len(ExtractSentence(buf).speak) > MinSpeakLen

(***************************************************************************)
(* Audio.                                                                  *)
(***************************************************************************)
\* streamTTSAudio / sendFallbackSilence: 100 ms of PCM
ChunkSize == IF SampleRate = 8000 THEN 3200 ELSE 6400

\* handleMediaEvent: two seconds of 16-bit PCM
Threshold == SampleRate * 2 * 2

\* AudioConverter.chunkPCM on a buffer of len bytes: the chunk lengths
RECURSIVE ChunkFrom(_, _, _)
ChunkFrom(len, size, i) ==
  IF i < len
  THEN <<(IF i + size < len THEN i + size ELSE len) - i>> \o ChunkFrom(len, size, i + size)
  ELSE <<>>

chunkPCM(len, size) == ChunkFrom(len, size, 0)

\* PCM lengths the TTS provider may return: the last chunk is a short one
PcmLens == {ChunkSize * (MaxChunks - 1) + 320}

\* inbound media payloads (bytes, and samples above SilenceAmplitude): two
\* seconds of speech, two seconds of zeros
Speech == [bytes |-> Threshold, loud |-> Threshold \div 2]
Zeros == [bytes |-> Threshold, loud |-> 0]

RECURSIVE SumOf(_, _)
SumOf(buf, f) == IF buf = <<>> THEN 0 ELSE buf[1][f] + SumOf(Tail(buf), f)

\* a gate that lets every buffer through
MostlySilenceNever(buf) == FALSE

\* processUserAudio: silenceRatio > 0.95 on the combined buffer, where
\* silenceRatio = 1 - nonZeroSamples / sampleCount
MostlySilence(buf) == SumOf(buf, "loud") * 2 * 20 < SumOf(buf, "bytes")

(***************************************************************************)
(* Texts.                                                                  *)
(***************************************************************************)
\* the literal fallback greeting, shortened
Greeting == <<"H", "i", ".">>

\* deltas the LLM stream may deliver
Deltas == { <<"a", "b", "c", "d", ".">>,
            <<" ", "e", "f", "g", "h", ".", " ", "i", "j">> }

(***************************************************************************)
(* State.                                                                  *)
(***************************************************************************)
VARIABLES
  streamSid,            \* session.streamSid
  isActive,             \* session.isActive
  pendingClear,         \* session.pendingClear
  processingAudio,      \* session.processingAudio
  greetingSent,         \* session.greetingSent
  greetingInProgress,   \* session.greetingInProgress
  sequenceNumber,       \* session.sequenceNumber
  audioBuffer,          \* session.audioBuffer: the buffered inbound payloads
  conversationHistory,  \* session.conversationHistory: the roles of its entries
  wsState,              \* ws.readyState
  registered,           \* sessions.has(callSid)
  streams,              \* the calls of streamTTSAudio / sendFallbackSilence
  turns,                \* the processUserAudio runs that reached STT, with their closures
  sent,                 \* the frames passed to ws.send by the last step
  stopped,              \* a stop event has been handled
  persona,              \* personaService: its cache, the store, the calls in flight
  kb,                   \* the knowledge base: its cache, the documents, the calls in flight
  fn,                   \* a call of a pure function: its arguments, locals and result
  registry              \* the connections the server accepted and its sessions Map

vars == <<streamSid, isActive, pendingClear, processingAudio, greetingSent,
          greetingInProgress, sequenceNumber, audioBuffer, conversationHistory,
          wsState, registered, streams, turns, sent, stopped, persona, kb, fn,
          registry>>

\* the session as one record, so that the steps of a handler compose; every
\* step starts with nothing sent
Cur ==
  [streamSid |-> streamSid, isActive |-> isActive, pendingClear |-> pendingClear,
   processingAudio |-> processingAudio, greetingSent |-> greetingSent,
   greetingInProgress |-> greetingInProgress, sequenceNumber |-> sequenceNumber,
   audioBuffer |-> audioBuffer, conversationHistory |-> conversationHistory,
   wsState |-> wsState, registered |-> registered, streams |-> streams,
   turns |-> turns, sent |-> <<>>, stopped |-> stopped]

Set(r) ==
  /\ streamSid' = r.streamSid
  /\ isActive' = r.isActive
  /\ pendingClear' = r.pendingClear
  /\ processingAudio' = r.processingAudio
  /\ greetingSent' = r.greetingSent
  /\ greetingInProgress' = r.greetingInProgress
  /\ sequenceNumber' = r.sequenceNumber
  /\ audioBuffer' = r.audioBuffer
  /\ conversationHistory' = r.conversationHistory
  /\ wsState' = r.wsState
  /\ registered' = r.registered
  /\ streams' = r.streams
  /\ turns' = r.turns
  /\ sent' = r.sent
  /\ stopped' = r.stopped
  /\ UNCHANGED <<persona, kb, fn, registry>>

(***************************************************************************)
(* The module state of the services at load time.  Time is counted from 1  *)
(* (Date.now() is never 0, which JavaScript would read as "no timestamp"), *)
(* in minutes for the persona and in steps of five minutes for the chunks; *)
(* an empty text stands for null, both being falsy.  A                     *)
(* call is a record with its position pc, its locals and, once it has      *)
(* returned, its result ret; expect is what the call owes its caller: the  *)
(* content written by the update that completed last before the call, or   *)
(* nothing ("free") when no write had completed, or when a write was       *)
(* started before the call returned.  lastUpdate records the update that   *)
(* completed last and its minute, written that a document write completed. *)
(***************************************************************************)
\* personaService.js: cachedPersona, cacheTimestamp, and an empty collection
PersonaAtLoad ==
  [store |-> [found |-> FALSE, content |-> <<>>],
   cachedPersona |-> <<>>, cacheTimestamp |-> 0, now |-> 1,
   loads |-> <<>>, updates |-> <<>>,
   lastUpdate |-> [content |-> <<>>, at |-> 0]]

\* knowledge base service: cachedChunks, cacheTimestamp, and no document
KbAtLoad ==
  [store |-> <<>>,
   cachedChunks |-> [set |-> FALSE, chunks |-> <<>>], cacheTimestamp |-> 0,
   now |-> 1, loads |-> <<>>, writes |-> <<>>, written |-> FALSE]

\* no pure function is being applied
NoCall == [op |-> "none"]

\* the connections of the server left out
NoServer == [op |-> "none"]

\* wss.on("connection"): the session object and its registration
NewSession ==
  /\ streamSid = Null
  /\ isActive = FALSE
  /\ pendingClear = FALSE
  /\ processingAudio = FALSE
  /\ greetingSent = FALSE
  /\ greetingInProgress = FALSE
  /\ sequenceNumber = 0
  /\ audioBuffer = <<>>
  /\ conversationHistory = <<>>
  /\ wsState = WsOpen
  /\ registered = TRUE
  /\ streams = <<>>
  /\ turns = <<>>
  /\ sent = <<>>
  /\ stopped = FALSE

\* the process after start-up, with one carrier connection
Init ==
  /\ NewSession
  /\ persona = PersonaAtLoad
  /\ kb = KbAtLoad /\ registry = NoServer
  /\ fn = NoCall

(***************************************************************************)
(* Outbound streaming.  A stream is one call of streamTTSAudio or of       *)
(* sendFallbackSilence; its id is <<kind, t, x>>: the x-th greeting        *)
(* (kind "greeting", t = 0), the x-th fallback silence (kind "silence",    *)
(* t = 0) or the x-th fragment flushed by turn t (kind "frag").            *)
(*   pc = "wait"   the onToken call that flushed it is suspended at        *)
(*                 `await pendingTTS`, streamTTSAudio not yet called       *)
(*   pc = "synth"  suspended at `await ttsService.synthesize`              *)
(*   pc = "loop"   suspended at the 10 ms pacing timer; i chunks sent      *)
(*   pc = "done" / "failed"   the promise is resolved / rejected           *)
(* text, len (the bytes of its PCM buffer), n (the number of chunks) and i  *)
(* are locals of the call and are dropped when it returns.                 *)
(* History, read by no action: preempted (a clear event arrived while the  *)
(* call was in its chunk loop), emitted (it has sent a media frame),       *)
(* marked (it has sent its mark), late (it was flushed after a clear event *)
(* arrived during the LLM reply of its turn).                              *)
(***************************************************************************)
NewStream(text, mark, late) ==
  [text |-> text, mark |-> mark, pc |-> "wait", len |-> 0, n |-> 0, i |-> 0,
   preempted |-> FALSE, emitted |-> FALSE, marked |-> FALSE, late |-> late]

Kind(id) == id[1]

TurnOf(id) == id[2]

IdsOf(r, kind, t) == {id \in DOMAIN r.streams : Kind(id) = kind /\ TurnOf(id) = t}

NextId(r, kind, t) == <<kind, t, Cardinality(IdsOf(r, kind, t)) + 1>>

AddStream(r, id, text, mark) ==
  LET late == Kind(id) = "frag" /\ r.turns[TurnOf(id)].bargedInReply
  IN [r EXCEPT !.streams = [j \in DOMAIN @ \cup {id} |->
                              IF j = id THEN NewStream(text, mark, late) ELSE @[j]]]

Settled(s) == s.pc \in {"done", "failed"}

\* a send that leaves session.sequenceNumber as it was
SendMediaStale(r, id) ==
  [r EXCEPT !.sent = Append(@, [event |-> "media", stream_sid |-> r.streamSid,
                                sequence_number |-> r.sequenceNumber,
                                src |-> id, name |-> "payload",
                                bytes |-> chunkPCM(r.streams[id].len, ChunkSize)
                                            [r.streams[id].i + 1]]),
            !.streams[id].i = @ + 1,
            !.streams[id].emitted = TRUE]

\* ws.send of a media frame followed by session.sequenceNumber++
SendMedia(r, id) ==
  [r EXCEPT !.sent = Append(@, [event |-> "media", stream_sid |-> r.streamSid,
                                sequence_number |-> r.sequenceNumber,
                                src |-> id, name |-> "payload",
                                bytes |-> chunkPCM(r.streams[id].len, ChunkSize)
                                            [r.streams[id].i + 1]]),
            !.sequenceNumber = @ + 1,
            !.streams[id].i = @ + 1,
            !.streams[id].emitted = TRUE]

\* ws.send of a mark frame
SendMark(r, id, name) ==
  [r EXCEPT !.sent = Append(@, [event |-> "mark", stream_sid |-> r.streamSid,
                                sequence_number |-> -1,
                                src |-> id, name |-> name, bytes |-> 0]),
            !.streams[id].marked = TRUE]

\* the call returns or throws: its locals are gone
Return(r, id, outcome) ==
  [r EXCEPT !.streams[id].pc = outcome, !.streams[id].text = <<>>,
            !.streams[id].len = 0, !.streams[id].n = 0, !.streams[id].i = 0,
            !.streams[id].preempted = FALSE]

\* sendFallbackSilence, one pass of its loop body or, after the last chunk,
\* its mark
SilenceIterate(r, id) ==
  LET s == r.streams[id]
  IN IF s.i < s.n /\ r.wsState = WsOpen
     THEN SendMedia(r, id)
     ELSE Return(IF r.wsState = WsOpen
                 THEN SendMark(r, id, "fallback_silence_done") ELSE r,
                 id, "done")

\* a fallback of one byte per sample
sendFallbackSilenceHalved(r) ==
  IF ~r.isActive \/ r.wsState # WsOpen \/ r.streamSid = Null
  THEN r
  ELSE LET id == NextId(r, "silence", 0)
           r1 == AddStream(r, id, <<>>, FALSE)
           silenceLength == SampleRate * SilenceDuration
           n == Len(chunkPCM(silenceLength, ChunkSize))
       IN SilenceIterate([r1 EXCEPT !.streams[id].pc = "loop",
                                    !.streams[id].len = silenceLength,
                                    !.streams[id].n = n], id)

\* sendFallbackSilence up to its first pacing timer
sendFallbackSilence(r) ==
  IF ~r.isActive \/ r.wsState # WsOpen \/ r.streamSid = Null
  THEN r
  ELSE LET id == NextId(r, "silence", 0)
           r1 == AddStream(r, id, <<>>, FALSE)
           silenceLength == SampleRate * 2 * SilenceDuration
           n == Len(chunkPCM(silenceLength, ChunkSize))
       IN SilenceIterate([r1 EXCEPT !.streams[id].pc = "loop",
                                    !.streams[id].len = silenceLength,
                                    !.streams[id].n = n], id)

\* streamTTSAudio called: the text guard, then `await synthesize`
CallStream(r, id) ==
  IF Trim(r.streams[id].text) = <<>>
  THEN Return(r, id, "done")
  ELSE [r EXCEPT !.streams[id].pc = "synth"]

\* the onToken calls of turn t suspended at `await pendingTTS` resume in the
\* order they suspended; each calls streamTTSAudio and stores its promise
RECURSIVE ResumeWaiters(_, _, _)
ResumeWaiters(r, t, x) ==
  LET id == <<"frag", t, x>>
  IN IF id \notin DOMAIN r.streams THEN r
     ELSE IF r.streams[id].pc = "wait"
          THEN ResumeWaiters([CallStream(r, id) EXCEPT !.turns[t].pendingTTS = x], t, x + 1)
          ELSE ResumeWaiters(r, t, x + 1)

\* a greeting whose completion also clears greetingSent
SettleReverting(r, id, outcome) ==
  LET r1 == Return(r, id, outcome)
  IN IF Kind(id) = "greeting"
     THEN [r1 EXCEPT !.greetingSent = FALSE, !.greetingInProgress = FALSE]
     ELSE r1

\* the promise of stream id settles: the continuations attached to it run
Settle(r, id, outcome) ==
  LET s == r.streams[id]
      t == TurnOf(id)
      r1 == Return(r, id, outcome)
  IN CASE Kind(id) = "greeting" /\ outcome = "done" ->
            [r1 EXCEPT !.greetingInProgress = FALSE]
       [] Kind(id) = "greeting" /\ outcome = "failed" ->
            sendFallbackSilence([r1 EXCEPT !.greetingSent = FALSE,
                                           !.greetingInProgress = FALSE])
       [] Kind(id) = "frag" ->
            \* the final flush awaits its own stream and then clears pendingTTS
            LET r2 == IF s.mark THEN [r1 EXCEPT !.turns[t].pendingTTS = 0] ELSE r1
            IN IF r.turns[t].pendingTTS = id[3] THEN ResumeWaiters(r2, t, 1) ELSE r2
       [] OTHER -> r1

\* streamTTSAudio after its chunk loop: the mark, then the promise resolves
FinishStream(r, id) ==
  LET s == r.streams[id]
      r1 == IF s.mark /\ r.wsState = WsOpen /\ ~r.pendingClear
            THEN SendMark(r, id, "assistant_reply_done") ELSE r
  IN Settle(r1, id, "done")

\* a chunk loop that does not look at ws.readyState
StreamIterateUnguarded(r, id) ==
  LET s == r.streams[id]
  IN IF s.i >= s.n THEN FinishStream(r, id)
     ELSE IF r.pendingClear THEN FinishStream([r EXCEPT !.pendingClear = FALSE], id)
     ELSE SendMedia(r, id)

\* streamTTSAudio, one pass of the chunk loop
StreamIterate(r, id) ==
  LET s == r.streams[id]
  IN IF s.i >= s.n THEN FinishStream(r, id)
     ELSE IF r.wsState # WsOpen THEN FinishStream(r, id)
     ELSE IF r.pendingClear THEN FinishStream([r EXCEPT !.pendingClear = FALSE], id)
     ELSE SendMedia(r, id)

(***************************************************************************)
(* Greeting.                                                               *)
(***************************************************************************)
\* a greeting branch that does not record the greeting as sent
StartGreetingUnrecorded(r) ==
  LET id == NextId(r, "greeting", 0)
      r1 == CallStream(AddStream([r EXCEPT !.greetingInProgress = TRUE],
                                 id, Greeting, TRUE), id)
  IN IF Settled(r1.streams[id]) THEN [r1 EXCEPT !.greetingInProgress = FALSE] ELSE r1

\* the greeting branch shared by handleConnectedEvent, handleStartEvent and
\* handleMediaEvent: set both flags and call streamTTSAudio(ws, session, greeting)
StartGreeting(r) ==
  LET id == NextId(r, "greeting", 0)
      r1 == CallStream(AddStream([r EXCEPT !.greetingInProgress = TRUE,
                                           !.greetingSent = TRUE],
                                 id, Greeting, TRUE), id)
  IN IF Settled(r1.streams[id]) THEN [r1 EXCEPT !.greetingInProgress = FALSE] ELSE r1

(***************************************************************************)
(* Turn pipeline.  A turn is one processUserAudio run that reached STT:    *)
(*   pc = "stt"      suspended at `await sttService.transcribePCM`         *)
(*   pc = "persona"  inside generateWithGeminiStreaming, suspended in      *)
(*                   ensureSystemMessage at `await loadPersonaFromMongo`   *)
(*   pc = "llm"      suspended at the fetch or at `await reader.read()`    *)
(*   pc = "done"     processUserAudio has returned                         *)
(* textBuffer and pendingTTS are the variables of that name in the         *)
(* closure of onToken (pendingTTS = x stands for the promise of fragment   *)
(* x, 0 for null); fullReply is the one of generateWithGeminiStreaming and *)
(* deltas counts the deltas delivered.  History, read by no action:        *)
(* replied (the LLM stream completed with a non-blank reply), barged (a    *)
(* clear event arrived while the turn was in flight or its fragments were  *)
(* streaming), bargedInReply (a clear event arrived while the LLM reply    *)
(* was streaming), stoppedInFlight (a stop event was handled while the     *)
(* turn was in flight).  combinedAudio is the snapshot of the inbound      *)
(* buffer (its bytes and its samples above SilenceAmplitude), live until   *)
(* transcribePCM resolves.                                                 *)
(***************************************************************************)
NoAudio == [bytes |-> 0, loud |-> 0]

NewTurn == [pc |-> "stt", combinedAudio |-> NoAudio,
            textBuffer |-> <<>>, pendingTTS |-> 0,
            fullReply |-> <<>>, deltas |-> 0,
            replied |-> FALSE, barged |-> FALSE, bargedInReply |-> FALSE,
            stoppedInFlight |-> FALSE]

\* onToken reaches a flush of text: wait for pendingTTS if it is unsettled,
\* else call streamTTSAudio now
Flush(r, t, text, mark) ==
  LET id == NextId(r, "frag", t)
      p == r.turns[t].pendingTTS
      r1 == AddStream(r, id, text, mark)
  IN IF p # 0 /\ ~Settled(r.streams[<<"frag", t, p>>])
     THEN r1
     ELSE [CallStream(r1, id) EXCEPT !.turns[t].pendingTTS = id[3]]

\* an onToken that forgets what follows the fragment it cut
onTokenDroppingRest(r, t, token) ==
  LET buf == r.turns[t].textBuffer \o token
      r1 == [r EXCEPT !.turns[t].textBuffer = buf]
  IN IF ShouldFlush(buf)
     THEN Flush([r1 EXCEPT !.turns[t].textBuffer = <<>>],
                t, ExtractSentence(buf).speak, FALSE)
     ELSE r1

\* onToken(token, false)
onToken(r, t, token) ==
  LET buf == r.turns[t].textBuffer \o token
      r1 == [r EXCEPT !.turns[t].textBuffer = buf]
  IN IF ShouldFlush(buf)
     THEN Flush([r1 EXCEPT !.turns[t].textBuffer = ExtractSentence(buf).rest],
                t, ExtractSentence(buf).speak, FALSE)
     ELSE r1

\* onToken('', true)
onTokenComplete(r, t) ==
  LET buf == r.turns[t].textBuffer
  IN IF Trim(buf) # <<>>
     THEN Flush([r EXCEPT !.turns[t].textBuffer = <<>>], t, Trim(buf), TRUE)
     ELSE r

\* processUserAudio up to its first await
processUserAudio(r) ==
  IF r.audioBuffer = <<>> THEN r
  ELSE IF r.pendingClear
       THEN [r EXCEPT !.audioBuffer = <<>>, !.pendingClear = FALSE]
       ELSE LET r1 == [r EXCEPT !.audioBuffer = <<>>]
            IN IF MostlySilence(r.audioBuffer) THEN r1
               ELSE [r1 EXCEPT !.turns = Append(@,
                       [NewTurn EXCEPT !.combinedAudio =
                          [bytes |-> SumOf(r.audioBuffer, "bytes"),
                           loud |-> SumOf(r.audioBuffer, "loud")]])]

\* session.processingAudio = true; processUserAudio(session).finally(...):
\* when processUserAudio returns without suspending, the flag is cleared
\* before the next event
StartTurn(r) ==
  LET r1 == processUserAudio(r)
  IN [r1 EXCEPT !.processingAudio = Len(r1.turns) > Len(r.turns)]

\* a return of processUserAudio whose finally callback leaves the flag set
EndTurnFlagKept(r, t) ==
  [r EXCEPT !.turns[t].pc = "done", !.turns[t].fullReply = <<>>,
            !.turns[t].deltas = 0, !.turns[t].textBuffer = <<>>]

\* processUserAudio returns (its locals are gone): the finally callback
EndTurn(r, t) ==
  [r EXCEPT !.turns[t].pc = "done", !.turns[t].fullReply = <<>>,
            !.turns[t].deltas = 0, !.turns[t].textBuffer = <<>>,
            !.processingAudio = FALSE]

\* a history left without its system message
ensureSystemMessageSkipped(h) == h

\* AIService.ensureSystemMessage on the roles of the history
ensureSystemMessage(h) ==
  IF h = <<>> THEN <<"system">>
  ELSE IF \E k \in 1..Len(h) : h[k] = "system" THEN h
  ELSE <<"system">> \o h

(***************************************************************************)
(* Carrier events (ws.on("message") dispatch).  A message carries the      *)
(* stream_sid sid (Null when it has none); none carries custom_parameters. *)
(***************************************************************************)
\* the stream_sid assignment of handleConnectedEvent / handleStartEvent
StoreStreamSid(r, sid) == IF sid # Null THEN [r EXCEPT !.streamSid = sid] ELSE r

handleConnectedEvent(r, sid) ==
  LET r1 == [StoreStreamSid(r, sid) EXCEPT !.isActive = TRUE]
  IN IF r1.streamSid # Null /\ ~r1.greetingSent /\ ~r1.greetingInProgress
     THEN StartGreeting(r1) ELSE r1

handleStartEvent(r, sid) ==
  LET r1 == [StoreStreamSid(r, sid) EXCEPT !.isActive = TRUE]
  IN IF r1.streamSid # Null /\ ~r1.greetingSent /\ ~r1.greetingInProgress
     THEN StartGreeting(r1) ELSE r1

\* a media handler that buffers both tracks
handleMediaEventAnyTrack(r, sid, track, payload) ==
  LET r1 == IF r.streamSid = Null /\ sid # Null
            THEN LET r0 == [r EXCEPT !.streamSid = sid]
                 IN IF ~r0.greetingSent /\ ~r0.greetingInProgress /\ r0.isActive
                    THEN StartGreeting(r0) ELSE r0
            ELSE r
      r2 == [r1 EXCEPT !.audioBuffer = Append(@, payload)]
  IN IF Len(r2.audioBuffer) > 0 /\ ~r2.processingAudio
        /\ SumOf(r2.audioBuffer, "bytes") >= Threshold
     THEN StartTurn(r2) ELSE r2

handleMediaEvent(r, sid, track, payload) ==
  LET r1 == IF r.streamSid = Null /\ sid # Null
            THEN LET r0 == [r EXCEPT !.streamSid = sid]
                 IN IF ~r0.greetingSent /\ ~r0.greetingInProgress /\ r0.isActive
                    THEN StartGreeting(r0) ELSE r0
            ELSE r
  IN IF track = "outbound" THEN r1
     ELSE LET r2 == [r1 EXCEPT !.audioBuffer = Append(@, payload)]
          IN IF Len(r2.audioBuffer) > 0 /\ ~r2.processingAudio
                /\ SumOf(r2.audioBuffer, "bytes") >= Threshold
             THEN StartTurn(r2) ELSE r2

handleStopEvent(r) ==
  LET r1 == [r EXCEPT !.isActive = FALSE, !.stopped = TRUE,
                      !.turns = [t \in 1..Len(r.turns) |->
                                   [r.turns[t] EXCEPT !.stoppedInFlight =
                                      @ \/ r.turns[t].pc # "done"]]]
      r2 == IF Len(r1.audioBuffer) > 0 /\ ~r1.processingAudio THEN StartTurn(r1) ELSE r1
  IN [r2 EXCEPT !.registered = FALSE,
                !.wsState = IF @ = WsOpen THEN WsClosing ELSE @]

\* turn t has not returned or one of its fragments is unsettled
Running(r, t) ==
  \/ r.turns[t].pc # "done"
  \/ \E id \in IdsOf(r, "frag", t) : ~Settled(r.streams[id])

handleClearEvent(r) ==
  [r EXCEPT !.pendingClear = TRUE,
            !.audioBuffer = <<>>,
            !.streams = [id \in DOMAIN r.streams |->
                           IF r.streams[id].pc = "loop"
                           THEN [r.streams[id] EXCEPT !.preempted = TRUE]
                           ELSE r.streams[id]],
            !.turns = [t \in 1..Len(r.turns) |->
                         [r.turns[t] EXCEPT
                            !.barged = @ \/ Running(r, t),
                            !.bargedInReply = @ \/ r.turns[t].pc = "llm"]]]

\* the event values of the switch of ws.on("message")
KnownEvents == {"connected", "start", "media", "stop", "mark"}

\* the frames no handler changes the session for: data that is not JSON, a
\* message without an event field ("none"), a mark, an event the switch does
\* not know
OtherFrames ==
  [parses : BOOLEAN, clear : {FALSE}, event : {"none", "mark", "dtmf"},
   stream_sid : {"S2"}, track : {"inbound"}, payload : {Speech}]

\* a dispatch that treats every event it does not know as media
onMessageLenient(r, m) ==
  IF ~m.parses THEN r
  ELSE IF m.clear \/ m.event = "clear" THEN handleClearEvent(r)
  ELSE IF m.event = "none" THEN r
  ELSE IF m.event = "connected" THEN handleConnectedEvent(r, m.stream_sid)
  ELSE IF m.event = "start" THEN handleStartEvent(r, m.stream_sid)
  ELSE IF m.event = "stop" THEN handleStopEvent(r)
  ELSE IF m.event = "mark" THEN r
  ELSE handleMediaEvent(r, m.stream_sid, m.track, m.payload)

\* ws.on("message"): JSON.parse (an exception is caught and logged), the
\* clear test, the event test, the switch; handleMarkEvent only logs
onMessage(r, m) ==
  IF ~m.parses THEN r
  ELSE IF m.clear \/ m.event = "clear" THEN handleClearEvent(r)
  ELSE IF m.event = "none" THEN r
  ELSE IF m.event = "connected" THEN handleConnectedEvent(r, m.stream_sid)
  ELSE IF m.event = "start" THEN handleStartEvent(r, m.stream_sid)
  ELSE IF m.event = "media" THEN handleMediaEvent(r, m.stream_sid, m.track, m.payload)
  ELSE IF m.event = "stop" THEN handleStopEvent(r)
  ELSE r

\* the handler stays within the bounds of the model
InBounds(r, maxTurns, maxGreetings) ==
  /\ Len(r.turns) <= maxTurns
  /\ Cardinality(IdsOf(r, "greeting", 0)) <= maxGreetings
  /\ Len(r.audioBuffer) <= MaxBuffered

\* messages are delivered until the socket is closed
Connected(sid, maxGreetings) ==
  /\ wsState # WsClosed
  /\ InBounds(handleConnectedEvent(Cur, sid), Len(turns), maxGreetings)
  /\ Set(handleConnectedEvent(Cur, sid))

Start(sid, maxGreetings) ==
  /\ wsState # WsClosed
  /\ InBounds(handleStartEvent(Cur, sid), Len(turns), maxGreetings)
  /\ Set(handleStartEvent(Cur, sid))

Media(sid, track, payload, maxTurns, maxGreetings) ==
  /\ wsState # WsClosed
  /\ InBounds(handleMediaEvent(Cur, sid, track, payload), maxTurns, maxGreetings)
  /\ Set(handleMediaEvent(Cur, sid, track, payload))

Stop(maxTurns, maxGreetings) ==
  /\ wsState # WsClosed
  /\ InBounds(handleStopEvent(Cur), maxTurns, maxGreetings)
  /\ Set(handleStopEvent(Cur))

Clear ==
  /\ wsState # WsClosed
  /\ Set(handleClearEvent(Cur))

\* a frame that is not one of the carrier events above
Frame(m) ==
  /\ wsState # WsClosed
  /\ Set(onMessage(Cur, m))

\* ws.on("close")
WsClose ==
  /\ wsState # WsClosed
  /\ Set([Cur EXCEPT !.wsState = WsClosed, !.registered = FALSE])

(***************************************************************************)
(* Resolutions of the awaits.                                              *)
(***************************************************************************)
\* ttsService.synthesize resolves with len bytes of PCM at the session rate:
\* chunkPCM, then the first pass of the chunk loop
SynthDone(id, len) ==
  /\ streams[id].pc = "synth"
  /\ Set(StreamIterate([Cur EXCEPT !.streams[id].pc = "loop",
                                   !.streams[id].len = len,
                                   !.streams[id].n = Len(chunkPCM(len, ChunkSize))], id))

\* ttsService.synthesize (or the resampling after it) rejects
SynthFail(id) ==
  /\ streams[id].pc = "synth"
  /\ Set(Settle(Cur, id, "failed"))

\* the 10 ms timer between two chunks fires
PacingTimer(id) ==
  /\ streams[id].pc = "loop"
  /\ Set(IF Kind(id) = "silence" THEN SilenceIterate(Cur, id)
                                 ELSE StreamIterate(Cur, id))

\* sttService.transcribePCM resolves, with a transcript or with null
STTDone(t, ok) ==
  /\ turns[t].pc = "stt"
  /\ LET r == [Cur EXCEPT !.turns[t].combinedAudio = NoAudio]
     IN Set(IF ok THEN [r EXCEPT !.turns[t].pc = "persona"] ELSE EndTurn(r, t))

\* loadPersonaFromMongo resolves: ensureSystemMessage completes
PersonaLoaded(t) ==
  /\ turns[t].pc = "persona"
  /\ Set([Cur EXCEPT !.turns[t].pc = "llm",
                     !.conversationHistory = ensureSystemMessage(@)])

\* reader.read() resolves with one data line carrying the delta d
LLMDelta(t, d, maxDeltas) ==
  /\ turns[t].pc = "llm"
  /\ turns[t].deltas < maxDeltas
  /\ Set(onToken([Cur EXCEPT !.turns[t].fullReply = @ \o d,
                             !.turns[t].deltas = @ + 1], t, d))

\* reader.read() resolves with done: completion callback, history, return
LLMComplete(t) ==
  /\ turns[t].pc = "llm"
  /\ LET r1 == IF turns[t].fullReply # <<>> THEN onTokenComplete(Cur, t) ELSE Cur
         r2 == IF Trim(turns[t].fullReply) # <<>>
               THEN [r1 EXCEPT !.conversationHistory = Append(@, "assistant"),
                               !.turns[t].replied = TRUE]
               ELSE r1
     IN Set(EndTurn(r2, t))

\* the persona load, the chunk lookup, the fetch or a read rejects: the catch
\* block of generateWithGeminiStreaming
LLMFail(t) ==
  /\ turns[t].pc \in {"persona", "llm"}
  /\ Set(EndTurn(onTokenComplete(Cur, t), t))

(***************************************************************************)
(* Specifications.                                                         *)
(***************************************************************************)
Async(maxDeltas) ==
  \/ \E id \in DOMAIN streams, len \in PcmLens : SynthDone(id, len)
  \/ \E id \in DOMAIN streams : SynthFail(id)
  \/ \E id \in DOMAIN streams : PacingTimer(id)
  \/ \E t \in 1..Len(turns), ok \in BOOLEAN : STTDone(t, ok)
  \/ \E t \in 1..Len(turns) : PersonaLoaded(t)
  \/ \E t \in 1..Len(turns), d \in Deltas : LLMDelta(t, d, maxDeltas)
  \/ \E t \in 1..Len(turns) : LLMComplete(t)
  \/ \E t \in 1..Len(turns) : LLMFail(t)

\* a whole session: every carrier event, one turn of one delta
Next ==
  \/ \E sid \in Sids : Connected(sid, MaxGreetings)
  \/ \E sid \in Sids : Start(sid, MaxGreetings)
  \/ \E sid \in Sids, track \in {"inbound", "outbound"}, payload \in {Speech, Zeros} :
       Media(sid, track, payload, SessionTurns, MaxGreetings)
  \/ Stop(SessionTurns, MaxGreetings)
  \/ Clear
  \/ \E m \in OtherFrames : Frame(m)
  \/ WsClose
  \/ Async(SessionDeltas)

Spec == Init /\ [][Next]_vars

\* one reply in detail: a connected call, speech, barge-in
NextReply ==
  \/ \E sid \in {Null, "S1"} : Connected(sid, MaxGreetings)
  \/ \E sid \in {Null, "S1"} : Media(sid, "inbound", Speech, ReplyTurns, MaxGreetings)
  \/ Clear
  \/ Async(ReplyDeltas)

SpecReply == Init /\ [][NextReply]_vars

\* successive turns of a connected call
NextTurns ==
  \/ \E sid \in {Null, "S1"} : Connected(sid, MaxGreetings)
  \/ \E sid \in {Null, "S1"} : Media(sid, "inbound", Speech, MaxTurns, MaxGreetings)
  \/ Async(TurnsDeltas)

SpecTurns == Init /\ [][NextTurns]_vars

\* the greeting and its retries: every carrier event, no turn (the inbound
\* audio is silence)
NextGreeting ==
  \/ \E sid \in {Null, "S1"} : Connected(sid, GreetingAttempts)
  \/ \E sid \in {Null, "S1"} : Start(sid, GreetingAttempts)
  \/ \E sid \in {Null, "S1"}, track \in {"inbound", "outbound"} :
       Media(sid, track, Zeros, 0, GreetingAttempts)
  \/ Stop(0, GreetingAttempts)
  \/ Clear
  \/ WsClose
  \/ \E id \in DOMAIN streams, len \in PcmLens : SynthDone(id, len)
  \/ \E id \in DOMAIN streams : SynthFail(id)
  \/ \E id \in DOMAIN streams : PacingTimer(id)

SpecGreeting == Init /\ [][NextGreeting]_vars

(***************************************************************************)
(* personaService.js.  The store holds at most the document named          *)
(* "default".  An await on the store is two steps: the store executes the  *)
(* operation, then the caller resumes with its result.                     *)
(***************************************************************************)
session == <<streamSid, isActive, pendingClear, processingAudio, greetingSent,
             greetingInProgress, sequenceNumber, audioBuffer, conversationHistory,
             wsState, registered, streams, turns, sent, stopped>>

PERSONA_CACHE_TTL_MS == 5 * 60 * 1000

\* getFallbackPersona()
Fallback == <<"f">>

\* the contents passed to updatePersona
UpdateTexts == {<<"x">>, <<" ", "y">>}

\* the cache test of loadPersonaFromMongo
PersonaFresh(p) ==
  /\ p.cachedPersona # <<>>
  /\ p.cacheTimestamp # 0
  /\ (p.now - p.cacheTimestamp) * 60 * 1000 < PERSONA_CACHE_TTL_MS

\* what a load called now owes: the content of the last completed update,
\* if it completed less than five minutes ago and no update is in flight
PersonaOwed(p) ==
  IF /\ p.lastUpdate.at # 0
     /\ (p.now - p.lastUpdate.at) * 60 * 1000 < PERSONA_CACHE_TTL_MS
     /\ \A u \in 1..Len(p.updates) : p.updates[u].pc = "done"
  THEN [owed |-> TRUE, content |-> p.lastUpdate.content]
  ELSE [owed |-> FALSE, content |-> <<>>]

\* cachedPersona = content; cacheTimestamp = Date.now(); return content
CacheAndReturn(p, l, content) ==
  [p EXCEPT !.cachedPersona = content, !.cacheTimestamp = p.now,
            !.loads[l].pc = "returned", !.loads[l].ret = content,
            !.loads[l].doc = PersonaAtLoad.store]

\* loadPersonaFromMongo is called: a fresh cache answers at once, else the
\* call awaits connectDB and Persona.findOne
LoadPersonaCall ==
  /\ Len(persona.loads) < MaxLoads
  /\ LET l == [pc |-> "find", doc |-> PersonaAtLoad.store,
               expect |-> PersonaOwed(persona), ret |-> <<>>]
     IN persona' =
          [persona EXCEPT !.loads = Append(@,
             IF PersonaFresh(persona)
             THEN [l EXCEPT !.pc = "returned", !.ret = persona.cachedPersona]
             ELSE l)]
  /\ UNCHANGED <<session, kb, fn, registry>>

\* the store executes Persona.findOne({ name })
PersonaFindOne(l) ==
  /\ persona.loads[l].pc = "find"
  /\ persona' = [persona EXCEPT !.loads[l].pc = "found", !.loads[l].doc = persona.store]
  /\ UNCHANGED <<session, kb, fn, registry>>

\* the load resumes after findOne: a missing document is created from the
\* fallback and saved, a found one is cached and returned
LoadPersonaFound(l) ==
  /\ persona.loads[l].pc = "found"
  /\ persona' = IF persona.loads[l].doc.found
                THEN CacheAndReturn(persona, l, persona.loads[l].doc.content)
                ELSE [persona EXCEPT !.loads[l].pc = "save"]
  /\ UNCHANGED <<session, kb, fn, registry>>

\* the store executes persona.save() of the fallback document
PersonaSave(l) ==
  /\ persona.loads[l].pc = "save"
  /\ persona' = [persona EXCEPT
                   !.loads[l].pc = "saved",
                   !.store = IF @.found THEN @
                             ELSE [found |-> TRUE, content |-> Fallback]]
  /\ UNCHANGED <<session, kb, fn, registry>>

\* the load resumes after save() with the content of the document it created
LoadPersonaSaved(l) ==
  /\ persona.loads[l].pc = "saved"
  /\ persona' = CacheAndReturn(persona, l, Fallback)
  /\ UNCHANGED <<session, kb, fn, registry>>

\* updatePersona(content) is called: it awaits connectDB and findOneAndUpdate
UpdatePersonaCall(content) ==
  /\ Len(persona.updates) < MaxUpdates
  /\ persona' = [persona EXCEPT
                   !.updates = Append(@, [pc |-> "write", content |-> content]),
                   !.loads = [l \in 1..Len(@) |->
                                IF @[l].pc = "returned" THEN @[l]
                                ELSE [@[l] EXCEPT !.expect.owed = FALSE]]]
  /\ UNCHANGED <<session, kb, fn, registry>>

\* the store executes findOneAndUpdate with upsert: content.trim() is stored
PersonaFindOneAndUpdate(u) ==
  /\ persona.updates[u].pc = "write"
  /\ persona' = [persona EXCEPT
                   !.updates[u].pc = "written",
                   !.store = [found |-> TRUE, content |-> Trim(persona.updates[u].content)]]
  /\ UNCHANGED <<session, kb, fn, registry>>

\* the update resumes: it clears the cache and returns
UpdatePersonaDone(u) ==
  /\ persona.updates[u].pc = "written"
  /\ persona' = [persona EXCEPT
                   !.updates[u].pc = "done",
                   !.cachedPersona = <<>>, !.cacheTimestamp = 0,
                   !.lastUpdate = [content |-> Trim(persona.updates[u].content),
                                   at |-> persona.now]]
  /\ UNCHANGED <<session, kb, fn, registry>>

\* a minute passes
PersonaMinute ==
  /\ persona.now < MaxMinutes
  /\ persona' = [persona EXCEPT !.now = @ + 1]
  /\ UNCHANGED <<session, kb, fn, registry>>

\* concurrent loads and updates of the persona
NextPersona ==
  \/ LoadPersonaCall
  \/ \E l \in 1..Len(persona.loads) : PersonaFindOne(l)
  \/ \E l \in 1..Len(persona.loads) : LoadPersonaFound(l)
  \/ \E l \in 1..Len(persona.loads) : PersonaSave(l)
  \/ \E l \in 1..Len(persona.loads) : LoadPersonaSaved(l)
  \/ \E content \in UpdateTexts : UpdatePersonaCall(content)
  \/ \E u \in 1..Len(persona.updates) : PersonaFindOneAndUpdate(u)
  \/ \E u \in 1..Len(persona.updates) : UpdatePersonaDone(u)
  \/ PersonaMinute

SpecPersona == Init /\ [][NextPersona]_vars

(***************************************************************************)
(* The persona service called with more than one name.  The store holds a  *)
(* document per name; cachedFor records the name whose load filled the     *)
(* cache, which the module itself does not keep.                           *)
(***************************************************************************)
PersonaNames == {"default", "sales"}

\* the content a persona has in the store, and the one an update gives it
StoredFor(name) == IF name = "default" THEN <<"d">> ELSE <<"s">>

UpdateFor(name) == Append(StoredFor(name), "2")

Absent == [found |-> FALSE, content |-> <<>>]

InitPersonaNames ==
  /\ NewSession /\ kb = KbAtLoad /\ registry = NoServer /\ fn = NoCall
  /\ \E st \in [PersonaNames -> BOOLEAN] :
       persona = [store |-> [n \in PersonaNames |->
                               IF st[n] THEN [found |-> TRUE, content |-> StoredFor(n)]
                               ELSE Absent],
                  cachedPersona |-> <<>>, cacheTimestamp |-> 0, now |-> 1,
                  cachedFor |-> "none", loads |-> <<>>, updates |-> <<>>]

\* cachedPersona = persona.content; cacheTimestamp = Date.now(); return
CacheForAndReturn(p, l, content) ==
  [p EXCEPT !.cachedPersona = content, !.cacheTimestamp = p.now,
            !.cachedFor = p.loads[l].name,
            !.loads[l].pc = "returned", !.loads[l].ret = content]

\* loadPersonaFromMongo(name) is called: the cache test does not look at name
LoadPersonaNamed(name) ==
  /\ Len(persona.loads) < MaxLoads
  /\ LET l == [name |-> name, pc |-> "find", doc |-> Absent,
               stored |-> persona.store[name], hit |-> FALSE,
               cachedFor |-> "none", ret |-> <<>>]
     IN persona' =
          [persona EXCEPT !.loads = Append(@,
             IF PersonaFresh(persona)
             THEN [l EXCEPT !.pc = "returned", !.ret = persona.cachedPersona,
                            !.hit = TRUE, !.cachedFor = persona.cachedFor]
             ELSE l)]
  /\ UNCHANGED <<session, kb, fn, registry>>

\* the store executes Persona.findOne({ name })
FindOneNamed(l) ==
  /\ persona.loads[l].pc = "find"
  /\ persona' = [persona EXCEPT !.loads[l].pc = "found",
                                !.loads[l].doc = persona.store[persona.loads[l].name]]
  /\ UNCHANGED <<session, kb, fn, registry>>

\* the load resumes after findOne
LoadNamedFound(l) ==
  /\ persona.loads[l].pc = "found"
  /\ persona' = IF persona.loads[l].doc.found
                THEN CacheForAndReturn(persona, l, persona.loads[l].doc.content)
                ELSE [persona EXCEPT !.loads[l].pc = "save"]
  /\ UNCHANGED <<session, kb, fn, registry>>

\* the store executes persona.save() of the fallback document
SaveNamed(l) ==
  /\ persona.loads[l].pc = "save"
  /\ persona' = [persona EXCEPT
                   !.loads[l].pc = "saved",
                   !.store[persona.loads[l].name] =
                      IF @.found THEN @ ELSE [found |-> TRUE, content |-> Fallback]]
  /\ UNCHANGED <<session, kb, fn, registry>>

\* the load resumes after save()
LoadNamedSaved(l) ==
  /\ persona.loads[l].pc = "saved"
  /\ persona' = CacheForAndReturn(persona, l, Fallback)
  /\ UNCHANGED <<session, kb, fn, registry>>

\* updatePersona(content, name) is called
UpdatePersonaNamed(name) ==
  /\ Len(persona.updates) < MaxUpdates
  /\ persona' = [persona EXCEPT
                   !.updates = Append(@, [pc |-> "write", name |-> name,
                                          content |-> UpdateFor(name)])]
  /\ UNCHANGED <<session, kb, fn, registry>>

\* the store executes findOneAndUpdate({ name }, ..) with upsert
FindOneAndUpdateNamed(u) ==
  /\ persona.updates[u].pc = "write"
  /\ persona' = [persona EXCEPT
                   !.updates[u].pc = "written",
                   !.store[persona.updates[u].name] =
                      [found |-> TRUE, content |-> Trim(persona.updates[u].content)]]
  /\ UNCHANGED <<session, kb, fn, registry>>

\* the update resumes: it clears the cache and returns
UpdateNamedDone(u) ==
  /\ persona.updates[u].pc = "written"
  /\ persona' = [persona EXCEPT !.updates[u].pc = "done",
                                !.cachedPersona = <<>>, !.cacheTimestamp = 0,
                                !.cachedFor = "none"]
  /\ UNCHANGED <<session, kb, fn, registry>>

NextPersonaNames ==
  \/ \E name \in PersonaNames : LoadPersonaNamed(name)
  \/ \E l \in 1..Len(persona.loads) : FindOneNamed(l)
  \/ \E l \in 1..Len(persona.loads) : LoadNamedFound(l)
  \/ \E l \in 1..Len(persona.loads) : SaveNamed(l)
  \/ \E l \in 1..Len(persona.loads) : LoadNamedSaved(l)
  \/ \E name \in PersonaNames : UpdatePersonaNamed(name)
  \/ \E u \in 1..Len(persona.updates) : FindOneAndUpdateNamed(u)
  \/ \E u \in 1..Len(persona.updates) : UpdateNamedDone(u)
  \/ PersonaMinute

SpecPersonaNames == InitPersonaNames /\ [][NextPersonaNames]_vars

(***************************************************************************)
(* The knowledge base: loadAllChunks and the document routes that write.   *)
(* The store is the sequence of documents, newest first.                   *)
(***************************************************************************)
KB_CACHE_TTL_MS == 10 * 60 * 1000

Docs == {"a", "b"}

\* doc.chunks as the upload route stored them
DocChunks(d) == IF d = "a" THEN <<"a1", "a2">> ELSE <<"b1">>

\* allChunks.push(...doc.chunks) over Document.find({}).sort({uploadedAt: -1})
RECURSIVE AllChunks(_)
AllChunks(docs) ==
  IF docs = <<>> THEN <<>> ELSE DocChunks(Head(docs)) \o AllChunks(Tail(docs))

\* the cache test of loadAllChunks: an empty array is cached too
ChunksFresh(k) ==
  /\ k.cachedChunks.set
  /\ k.cacheTimestamp # 0
  /\ (k.now - k.cacheTimestamp) * 5 * 60 * 1000 < KB_CACHE_TTL_MS

\* what a chunk load called now owes: the chunks of the documents now in the
\* store, if a write has completed and none is in flight
ChunksOwed(k) ==
  IF k.written /\ \A w \in 1..Len(k.writes) : k.writes[w].pc = "done"
  THEN [owed |-> TRUE, chunks |-> AllChunks(k.store)]
  ELSE [owed |-> FALSE, chunks |-> <<>>]

\* a write is called while loads are in flight: they owe nothing any more
StartWrite(k, w) ==
  [k EXCEPT !.writes = Append(@, w),
            !.loads = [l \in 1..Len(@) |->
                         IF @[l].pc = "returned" THEN @[l]
                         ELSE [@[l] EXCEPT !.expect.owed = FALSE]]]

RECURSIVE Without(_, _)
Without(docs, d) ==
  IF docs = <<>> THEN <<>>
  ELSE IF Head(docs) = d THEN Tail(docs)
  ELSE <<Head(docs)>> \o Without(Tail(docs), d)

\* clearKnowledgebaseCache()
clearKnowledgebaseCache(k) ==
  [k EXCEPT !.cachedChunks = KbAtLoad.cachedChunks, !.cacheTimestamp = 0]

\* getRelevantChunks calls loadAllChunks: a fresh cache answers at once, else
\* the call awaits connectDB and Document.find
LoadAllChunksCall ==
  /\ Len(kb.loads) < MaxChunkLoads
  /\ LET l == [pc |-> "find", docs |-> <<>>, expect |-> ChunksOwed(kb), ret |-> <<>>]
     IN kb' = [kb EXCEPT !.loads = Append(@,
                 IF ChunksFresh(kb)
                 THEN [l EXCEPT !.pc = "returned", !.ret = kb.cachedChunks.chunks]
                 ELSE l)]
  /\ UNCHANGED <<session, persona, fn, registry>>

\* the store executes Document.find({})
DocumentFind(l) ==
  /\ kb.loads[l].pc = "find"
  /\ kb' = [kb EXCEPT !.loads[l].pc = "found", !.loads[l].docs = kb.store]
  /\ UNCHANGED <<session, persona, fn, registry>>

\* the load resumes: it caches the chunks of the documents it read
LoadAllChunksFound(l) ==
  /\ kb.loads[l].pc = "found"
  /\ LET allChunks == AllChunks(kb.loads[l].docs)
     IN kb' = [kb EXCEPT !.cachedChunks = [set |-> TRUE, chunks |-> allChunks],
                         !.cacheTimestamp = kb.now,
                         !.loads[l].pc = "returned", !.loads[l].ret = allChunks,
                         !.loads[l].docs = <<>>]
  /\ UNCHANGED <<session, persona, fn, registry>>

\* POST /documents/upload of a document not yet in the store: it awaits
\* document.save()
UploadCall(d) ==
  /\ Len(kb.writes) < MaxWrites
  /\ \A k \in 1..Len(kb.store) : kb.store[k] # d
  /\ \A w \in 1..Len(kb.writes) : kb.writes[w].doc = d => kb.writes[w].pc = "done"
  /\ kb' = StartWrite(kb, [op |-> "upload", doc |-> d, pc |-> "write", found |-> FALSE])
  /\ UNCHANGED <<session, persona, fn, registry>>

\* DELETE /documents/:id: it awaits Document.findByIdAndDelete
DeleteCall(d) ==
  /\ Len(kb.writes) < MaxWrites
  /\ kb' = StartWrite(kb, [op |-> "delete", doc |-> d, pc |-> "write", found |-> FALSE])
  /\ UNCHANGED <<session, persona, fn, registry>>

\* the store executes document.save() or findByIdAndDelete
DocumentWrite(w) ==
  /\ kb.writes[w].pc = "write"
  /\ LET d == kb.writes[w].doc
         found == \E k \in 1..Len(kb.store) : kb.store[k] = d
     IN kb' = [kb EXCEPT
                 !.writes[w].pc = "written",
                 !.writes[w].found = found,
                 !.store = IF kb.writes[w].op = "upload" THEN <<d>> \o @
                           ELSE Without(@, d)]
  /\ UNCHANGED <<session, persona, fn, registry>>

\* the route resumes: it clears the cache (a delete that found no document
\* answers 404 and leaves the cache alone) and responds
WriteDone(w) ==
  /\ kb.writes[w].pc = "written"
  /\ LET k1 == [kb EXCEPT !.writes[w].pc = "done"]
     IN kb' = IF kb.writes[w].op = "delete" /\ ~kb.writes[w].found THEN k1
              ELSE [clearKnowledgebaseCache(k1) EXCEPT !.written = TRUE]
  /\ UNCHANGED <<session, persona, fn, registry>>

\* five minutes pass
KbClock ==
  /\ kb.now < MaxKbClock
  /\ kb' = [kb EXCEPT !.now = @ + 1]
  /\ UNCHANGED <<session, persona, fn, registry>>

\* concurrent chunk loads, uploads and deletes
NextKb ==
  \/ LoadAllChunksCall
  \/ \E l \in 1..Len(kb.loads) : DocumentFind(l)
  \/ \E l \in 1..Len(kb.loads) : LoadAllChunksFound(l)
  \/ \E d \in Docs : UploadCall(d)
  \/ \E d \in Docs : DeleteCall(d)
  \/ \E w \in 1..Len(kb.writes) : DocumentWrite(w)
  \/ \E w \in 1..Len(kb.writes) : WriteDone(w)
  \/ KbClock

SpecKb == Init /\ [][NextKb]_vars

(***************************************************************************)
(* getRelevantChunks: the scoring.  A text is the sequence of its words,   *)
(* lower case and separated by single blanks; no word of the vocabulary is *)
(* part of another, so a whole-word match is an equal word and the query   *)
(* phrase is in a text when the query's words are consecutive words of it. *)
(* A chunk also says whether it looks like a heading.                      *)
(***************************************************************************)
Vocabulary == {<<"a", "b">>, <<"c", "d">>, <<"x">>}

\* n times the word w
Repeat(w, n) == [k \in 1..n |-> w]

Queries == UNION {[1..n -> Vocabulary] : n \in 1..MaxQueryWords}

ChunkTexts ==
  {Repeat(w, n) : w \in Vocabulary, n \in 1..MaxRepeat} \cup [1..2 -> Vocabulary]

ScoredChunks == [heading : BOOLEAN, words : ChunkTexts]

\* q.split(/\s+/).filter(word => word.length >= 2)
queryWords(q) == SelectSeq(q, LAMBDA w : Len(w) >= 2)

\* (text.match(new RegExp(`\\b${word}\\b`, 'gi')) || []).length
Matches(text, word) == Cardinality({k \in 1..Len(text) : text[k] = word})

\* text.includes(q)
Includes(text, q) ==
  \E k \in 0..(Len(text) - Len(q)) : \A j \in 1..Len(q) : text[k + j] = q[j]

RECURSIVE SumMatches(_, _)
SumMatches(text, words) ==
  IF words = <<>> THEN 0
  ELSE Matches(text, Head(words)) + SumMatches(text, Tail(words))

\* the score of one chunk: keyword matches, 5 for the exact phrase, 1 for a
\* heading
Score(chunk, q) ==
  SumMatches(chunk.words, queryWords(q))
    + (IF Includes(chunk.words, q) THEN 5 ELSE 0)
    + (IF chunk.heading THEN 1 ELSE 0)

\* scored.sort: score descending, index ascending, over the indexes in S
RECURSIVE Sorted(_, _, _)
Sorted(chunks, q, S) ==
  IF S = {} THEN <<>>
  ELSE LET first == CHOOSE i \in S : \A j \in S :
                      \/ Score(chunks[i], q) > Score(chunks[j], q)
                      \/ Score(chunks[i], q) = Score(chunks[j], q) /\ i <= j
       IN <<first>> \o Sorted(chunks, q, S \ {first})

\* getRelevantChunks on loaded chunks: the indexes of the chunks it returns,
\* in order
getRelevantChunks(q, chunks, maxChunks) ==
  IF chunks = <<>> \/ queryWords(q) = <<>> THEN <<>>
  ELSE LET scored == Sorted(chunks, q, 1..Len(chunks))
           relevant == SelectSeq(scored, LAMBDA i : Score(chunks[i], q) > 0)
       IN SubSeq(relevant, 1, IF Len(relevant) < maxChunks THEN Len(relevant) ELSE maxChunks)

\* a call of getRelevantChunks(query, 3) over two loaded chunks
InitScoring ==
  /\ NewSession /\ persona = PersonaAtLoad /\ kb = KbAtLoad /\ registry = NoServer
  /\ \E q \in Queries, a \in ScoredChunks, b \in ScoredChunks :
       fn = [op |-> "getRelevantChunks", query |-> q, chunks |-> <<a, b>>,
             pc |-> "called", ret |-> <<>>]

Rank ==
  /\ fn.pc = "called"
  /\ fn' = [fn EXCEPT !.pc = "returned",
                      !.ret = getRelevantChunks(fn.query, fn.chunks, 3)]
  /\ UNCHANGED <<session, persona, kb, registry>>

SpecScoring == InitScoring /\ [][Rank]_vars

(***************************************************************************)
(* AudioConverter.chunkPCM on the bytes of a buffer.                       *)
(***************************************************************************)
Bytes == {0, 1}

Buffers == UNION {[1..n -> Bytes] : n \in 0..MaxPcm}

\* a framing that drops the bytes after the last whole frame
RECURSIVE SliceWhole(_, _, _)
SliceWhole(pcm, size, i) ==
  IF i + size > Len(pcm) THEN <<>>
  ELSE <<SubSeq(pcm, i + 1, i + size)>> \o SliceWhole(pcm, size, i + size)

chunkPCMWhole(pcm, size) == SliceWhole(pcm, size, 0)

\* for (i = 0; i < pcmBuffer.length; i += chunkSize)
\*   chunks.push(pcmBuffer.slice(i, Math.min(i + chunkSize, pcmBuffer.length)))
RECURSIVE SliceFrom(_, _, _)
SliceFrom(pcm, size, i) ==
  IF i >= Len(pcm) THEN <<>>
  ELSE <<SubSeq(pcm, i + 1, IF i + size < Len(pcm) THEN i + size ELSE Len(pcm))>>
         \o SliceFrom(pcm, size, i + size)

chunkPCMBytes(pcm, size) == SliceFrom(pcm, size, 0)

\* a call of chunkPCM(pcmBuffer, chunkSize) with chunkSize > 0
InitFraming ==
  /\ NewSession /\ persona = PersonaAtLoad /\ kb = KbAtLoad /\ registry = NoServer
  /\ \E pcm \in Buffers, size \in 1..MaxFrame :
       fn = [op |-> "chunkPCM", pcm |-> pcm, size |-> size,
             pc |-> "called", ret |-> <<>>]

ChunkPcm ==
  /\ fn.pc = "called"
  /\ fn' = [fn EXCEPT !.pc = "returned", !.ret = chunkPCMBytes(fn.pcm, fn.size)]
  /\ UNCHANGED <<session, persona, kb, registry>>

SpecFraming == InitFraming /\ [][ChunkPcm]_vars

(***************************************************************************)
(* chunkText, one iteration of its loop per step.  A chunk is recorded as  *)
(* the range [from, to) of the text it was cut from, after trim(), counted *)
(* from 0.                                                                 *)
(***************************************************************************)
Chars == {"a", ".", " ", "\n"}

Texts == UNION {[1..n -> Chars] : n \in 1..MaxText}

LongText == [k \in 1..LongLength |-> IF k % LongPeriod = 0 THEN "." ELSE "a"]

\* text.lastIndexOf('\n\n', from): 0-based index, -1 when absent
LastParagraphEnd(s, from) ==
  LET hits == {i \in 0..(Len(s) - 2) : i <= from /\ s[i + 1] = "\n" /\ s[i + 2] = "\n"}
  IN IF hits = {} THEN -1 ELSE CHOOSE i \in hits : \A j \in hits : j <= i

\* text.substring(start, end).trim() as a range; from = to when it is empty
TrimRange(text, start, end) ==
  LET solid == {i \in start..(end - 1) : ~IsSpace(text[i + 1])}
  IN IF solid = {} THEN [from |-> start, to |-> start]
     ELSE [from |-> CHOOSE i \in solid : \A j \in solid : i <= j,
           to |-> (CHOOSE i \in solid : \A j \in solid : j <= i) + 1]

\* Math.ceil(textLength / Math.max(1, chunkSize - overlap)) + 100
maxChunks(textLength, chunkSize, overlap) ==
  LET d == IF chunkSize - overlap > 1 THEN chunkSize - overlap ELSE 1
  IN (textLength + d - 1) \div d + 100

\* the while condition of chunkText
Looping(c) ==
  c.start < Len(c.text) /\ Len(c.chunks) < maxChunks(Len(c.text), c.size, c.overlap)

\* the end of the window that starts at c.start, after the break search
WindowEnd(c) ==
  LET textLength == Len(c.text)
      end == IF c.start + c.size < textLength THEN c.start + c.size ELSE textLength
      sentenceEnd == LastIndexOf(c.text, ".", end)
      paragraphEnd == LastParagraphEnd(c.text, end)
      bestBreak == IF sentenceEnd > paragraphEnd THEN sentenceEnd ELSE paragraphEnd
  IN IF end < textLength /\ 2 * bestBreak > 2 * c.start + c.size
     THEN bestBreak + 1 ELSE end

\* a loop body whose next window starts at end - overlap, whatever that is
chunkTextBodyUnguarded(c) ==
  LET end == WindowEnd(c)
      chunk == TrimRange(c.text, c.start, end)
      c1 == IF chunk.to > chunk.from THEN [c EXCEPT !.chunks = Append(@, chunk)] ELSE c
  IN IF end >= Len(c.text) THEN [c1 EXCEPT !.pc = "returned"]
     ELSE LET c2 == [c1 EXCEPT !.start = end - c.overlap]
          IN IF Looping(c2) THEN c2 ELSE [c2 EXCEPT !.pc = "returned"]

\* one pass of the loop body, then the while condition
chunkTextBody(c) ==
  LET end == WindowEnd(c)
      chunk == TrimRange(c.text, c.start, end)
      c1 == IF chunk.to > chunk.from THEN [c EXCEPT !.chunks = Append(@, chunk)] ELSE c
  IN IF end >= Len(c.text) THEN [c1 EXCEPT !.pc = "returned"]
     ELSE LET nextStart == IF c.start + 1 > end - c.overlap
                           THEN c.start + 1 ELSE end - c.overlap
              c2 == [c1 EXCEPT !.start = nextStart]
          IN IF Looping(c2) THEN c2 ELSE [c2 EXCEPT !.pc = "returned"]

\* texts of letters and full stops
Sentences == UNION {[1..n -> {"a", "."}] : n \in 1..MaxSentence}

\* the short texts with every window and overlap
ShortInputs ==
  {in \in {<<text, size, overlap>> :
             text \in Texts, size \in 1..MaxSize, overlap \in 0..(MaxSize - 1)}
          \cup {<<text, size, overlap>> :
             text \in Sentences, size \in 1..MaxWindow, overlap \in 0..(MaxWindow - 1)} :
     in[3] < in[2]}

\* a call chunkText(text, chunkSize, overlap) with chunkSize >= 1 and
\* 0 <= overlap < chunkSize
CallChunkText(inputs) ==
  /\ NewSession /\ persona = PersonaAtLoad /\ kb = KbAtLoad /\ registry = NoServer
  /\ \E in \in inputs :
       fn = [op |-> "chunkText", text |-> in[1], size |-> in[2], overlap |-> in[3],
             pc |-> "called", start |-> 0, chunks |-> <<>>]

InitChunkText == CallChunkText(ShortInputs)

InitChunkTextLong == CallChunkText(ShortInputs \cup {<<LongText, LongSize, LongOverlap>>})

\* the call: a text that is empty after trim() returns no chunk, else the
\* loop is entered
ChunkTextCall ==
  /\ fn.pc = "called"
  /\ fn' = IF Trim(fn.text) = <<>> \/ ~Looping(fn)
           THEN [fn EXCEPT !.pc = "returned"] ELSE [fn EXCEPT !.pc = "loop"]
  /\ UNCHANGED <<session, persona, kb, registry>>

ChunkTextStep ==
  /\ fn.pc = "loop"
  /\ fn' = chunkTextBody(fn)
  /\ UNCHANGED <<session, persona, kb, registry>>

NextChunkText == ChunkTextCall \/ ChunkTextStep

\* the function runs to completion once called
SpecChunkText == InitChunkText /\ [][NextChunkText]_vars /\ WF_vars(NextChunkText)

\* short texts and the long one
SpecChunkTextLong == InitChunkTextLong /\ [][NextChunkText]_vars

(***************************************************************************)
(* generateWithGeminiStreaming: the reads of the response body.  The body  *)
(* is a sequence of characters; "D" stands for the prefix "data: ", "E"    *)
(* for a line that is no data line, "$" for the [DONE] marker.  A JSON     *)
(* payload is "{", the texts of the parts of the first candidate (one      *)
(* letter each), "F" when the candidate carries a finishReason, and "}";   *)
(* anything else does not parse.  calls is the sequence of the calls of    *)
(* onToken.                                                                *)
(***************************************************************************)
Letters == {"a", "b"}

SseLines ==
  {<<"D", "{", "a", "}">>, <<"D", "{", "b", "}">>, <<"D", "{", "a", "b", "}">>,
   <<"D", "{", "b", "F", "}">>, <<"D", "{", "F", "}">>, <<"D", "$">>,
   <<"D", "{", "a">>, <<"E">>, <<>>, <<"D", "{", "a", "}", "\r">>}

RECURSIVE JoinLines(_)
JoinLines(lines) ==
  IF lines = <<>> THEN <<>> ELSE Head(lines) \o <<"\n">> \o JoinLines(Tail(lines))

\* the bodies: up to MaxLines lines, the last one with or without its newline
SseStreams ==
  LET whole == {JoinLines(ls) : ls \in UNION {[1..n -> SseLines] : n \in 0..MaxLines}}
  IN whole \cup {SubSeq(s, 1, Len(s) - 1) : s \in whole \ {<<>>}}

\* JSON.parse(dataStr) and the first candidate: whether it parses, whether
\* the candidate has a finishReason, the texts of its parts
ParseData(dataStr) ==
  LET n == Len(dataStr)
      inner == IF n >= 2 THEN SubSeq(dataStr, 2, n - 1) ELSE <<>>
      finish == inner # <<>> /\ inner[Len(inner)] = "F"
      parts == IF finish THEN SubSeq(inner, 1, Len(inner) - 1) ELSE inner
  IN IF n >= 2 /\ dataStr[1] = "{" /\ dataStr[n] = "}"
        /\ \A k \in 1..Len(parts) : parts[k] \in Letters
     THEN [ok |-> TRUE, finishReason |-> finish, parts |-> parts]
     ELSE [ok |-> FALSE, finishReason |-> FALSE, parts |-> <<>>]

\* buffer.split('\n'): the complete lines and the rest
RECURSIVE SplitLines(_, _)
SplitLines(buffer, line) ==
  IF buffer = <<>> THEN [lines |-> <<>>, rest |-> line]
  ELSE IF Head(buffer) = "\n"
       THEN LET s == SplitLines(Tail(buffer), <<>>)
            IN [lines |-> <<line>> \o s.lines, rest |-> s.rest]
       ELSE SplitLines(Tail(buffer), Append(line, Head(buffer)))

\* line.slice(6).trim() of a data line
DataOf(line) == Trim(Tail(line))

\* onToken(deltaText, false) for every part, with fullReply += deltaText
RECURSIVE Deliver(_, _)
Deliver(c, parts) ==
  IF parts = <<>> THEN c
  ELSE Deliver([c EXCEPT !.fullReply = Append(@, Head(parts)),
                         !.calls = Append(@, [text |-> <<Head(parts)>>,
                                              isComplete |-> FALSE])],
               Tail(parts))

\* the body of `for (const line of lines)` for one line
ProcessLine(c, line) ==
  IF line # <<>> /\ Head(line) = "D"
  THEN LET dataStr == DataOf(line)
           data == ParseData(dataStr)
       IN IF dataStr = <<>> \/ dataStr = <<"$">> THEN c
          ELSE IF ~data.ok \/ data.finishReason THEN c
          ELSE Deliver(c, data.parts)
  ELSE c

RECURSIVE ProcessLines(_, _)
ProcessLines(c, lines) ==
  IF lines = <<>> THEN c ELSE ProcessLines(ProcessLine(c, Head(lines)), Tail(lines))

\* a read that forgets the incomplete line it was left with
OnReadNoTail(c, value) ==
  LET s == SplitLines(c.buffer \o value, <<>>)
  IN [ProcessLines(c, s.lines) EXCEPT !.buffer = <<>>, !.pos = @ + Len(value),
                                       !.carried = @ \/ s.rest # <<>>]

\* reader.read() resolved with value: decode, split, keep the incomplete line
\* (carried records that some read ended inside a line)
OnRead(c, value) ==
  LET s == SplitLines(c.buffer \o value, <<>>)
  IN [ProcessLines(c, s.lines) EXCEPT !.buffer = s.rest, !.pos = @ + Len(value),
                                       !.carried = @ \/ s.rest # <<>>]

\* onToken('', true)
Complete(c) == [c EXCEPT !.calls = Append(@, [text |-> <<>>, isComplete |-> TRUE])]

\* reader.read() resolved with done: the remaining buffer, the completion
\* callback, the return
OnDone(c) ==
  LET dataStr == DataOf(c.buffer)
      data == ParseData(dataStr)
      c1 == IF /\ Trim(c.buffer) # <<>> /\ Head(c.buffer) = "D"
               /\ dataStr # <<>> /\ dataStr # <<"$">>
               /\ data.ok /\ data.parts # <<>>
            THEN Deliver(c, <<data.parts[1]>>) ELSE c
      c2 == IF c1.fullReply # <<>> THEN Complete(c1) ELSE c1
  IN [c2 EXCEPT !.pc = "returned", !.buffer = <<>>]

\* the catch block: onToken('', true), return null
OnError(c) == [Complete(c) EXCEPT !.pc = "returned", !.buffer = <<>>]

\* a call of generateWithGeminiStreaming with a key and a user text, up to
\* its fetch
CallGemini(s) ==
  [op |-> "generateWithGeminiStreaming", stream |-> s, pc |-> "fetch",
   pos |-> 0, buffer |-> <<>>, fullReply |-> <<>>, calls |-> <<>>,
   carried |-> FALSE]

InitStream ==
  /\ NewSession /\ persona = PersonaAtLoad /\ kb = KbAtLoad /\ registry = NoServer
  /\ \E s \in SseStreams : fn = CallGemini(s)

\* fetch resolves with a response that is ok
FetchOk ==
  /\ fn.pc = "fetch"
  /\ fn' = [fn EXCEPT !.pc = "read"]
  /\ UNCHANGED <<session, persona, kb, registry>>

\* fetch rejects, or resolves with an HTTP error status
FetchError ==
  /\ fn.pc = "fetch"
  /\ fn' = OnError(fn)
  /\ UNCHANGED <<session, persona, kb, registry>>

\* reader.read() resolves with the next n characters of the body
Read(n) ==
  /\ fn.pc = "read"
  /\ fn.pos + n <= Len(fn.stream)
  /\ fn' = OnRead(fn, SubSeq(fn.stream, fn.pos + 1, fn.pos + n))
  /\ UNCHANGED <<session, persona, kb, registry>>

\* reader.read() resolves with done at the end of the body
ReadDone ==
  /\ fn.pc = "read"
  /\ fn.pos = Len(fn.stream)
  /\ fn' = OnDone(fn)
  /\ UNCHANGED <<session, persona, kb, registry>>

\* reader.read() rejects
ReadError ==
  /\ fn.pc = "read"
  /\ fn' = OnError(fn)
  /\ UNCHANGED <<session, persona, kb, registry>>

NextStream ==
  \/ FetchOk
  \/ FetchError
  \/ \E n \in 1..(2 * MaxLines * 6) : Read(n)
  \/ ReadDone
  \/ ReadError

SpecStream == InitStream /\ [][NextStream]_vars

(***************************************************************************)
(* postProcessReply.  The replies are over letters, full stops, spaces and *)
(* asterisks: the patterns for code, headers and links match nothing in    *)
(* them, and no reply has a line break.                                    *)
(***************************************************************************)
ReplyLimit == 300

\* what generateWithGeminiStreaming passes: fullReply.trim(), not empty
ShortReplies ==
  {t \in UNION {[1..n -> {"a", ".", " ", "*"}] : n \in 1..MaxReply} : Trim(t) = t}

LongReplies ==
  {Repeat("a", ReplyLimit - 1), Repeat("a", ReplyLimit), Repeat("a", ReplyLimit + 1),
   Append(Repeat("a", ReplyLimit + 1), "."),
   [k \in 1..(ReplyLimit + 100) |-> IF k % 100 = 0 THEN "." ELSE "a"],
   [k \in 1..(ReplyLimit + 50) |-> IF k = 150 THEN "." ELSE "a"]}

\* s.replace(/d(.*?)d/g, '$1') for the delimiter d, from index i on
RECURSIVE StripPairs(_, _, _)
StripPairs(s, d, i) ==
  LET k == Len(d)
      At(j) == j + k - 1 <= Len(s) /\ SubSeq(s, j, j + k - 1) = d
      Closes(o) == {j \in (o + k)..Len(s) : At(j)}
      opens == {o \in i..Len(s) : At(o) /\ Closes(o) # {}}
      o == CHOOSE c \in opens : \A c2 \in opens : c <= c2
      j == CHOOSE c \in Closes(o) : \A c2 \in Closes(o) : c <= c2
  IN IF opens = {} THEN SubSeq(s, i, Len(s))
     ELSE SubSeq(s, i, o - 1) \o SubSeq(s, o + k, j - 1) \o StripPairs(s, d, j + k)

\* s.match(/[^.!?]+[.!?]+/g) from index i on
RECURSIVE MatchSentences(_, _)
MatchSentences(s, i) ==
  LET starts == {p \in i..Len(s) : ~IsEnder(s[p])}
      p == CHOOSE c \in starts : \A c2 \in starts : c <= c2
      enders == {q \in p..Len(s) : IsEnder(s[q])}
      q == CHOOSE c \in enders : \A c2 \in enders : c <= c2
      others == {r \in q..Len(s) : ~IsEnder(s[r])}
      r == IF others = {} THEN Len(s) + 1
           ELSE CHOOSE c \in others : \A c2 \in others : c <= c2
  IN IF starts = {} \/ enders = {} THEN <<>>
     ELSE <<SubSeq(s, p, r - 1)>> \o MatchSentences(s, r)

\* the loop over the sentences: add while the result stays within the limit
RECURSIVE Truncate(_, _)
Truncate(truncated, sentences) ==
  IF sentences = <<>> \/ Len(truncated \o Head(sentences)) > ReplyLimit THEN truncated
  ELSE Truncate(truncated \o Head(sentences), Tail(sentences))

postProcessReply(reply) ==
  LET processed == Trim(StripPairs(StripPairs(reply, <<"*", "*">>, 1), <<"*">>, 1))
      sentences == MatchSentences(processed, 1)
      truncated == Truncate(<<>>, sentences)
      cut == SubSeq(processed, 1, ReplyLimit)
      limited == IF Len(processed) > ReplyLimit
                 THEN IF sentences # <<>> /\ truncated # <<>> THEN truncated ELSE cut
                 ELSE processed
      ended == IF limited # <<>> /\ ~IsEnder(limited[Len(limited)])
               THEN Append(limited, ".") ELSE limited
  IN IF reply = <<>> THEN reply ELSE Trim(ended)

InitPostProcess ==
  /\ NewSession /\ persona = PersonaAtLoad /\ kb = KbAtLoad /\ registry = NoServer
  /\ \E t \in ShortReplies \cup LongReplies :
       fn = [op |-> "postProcessReply", pc |-> "called", reply |-> t, ret |-> <<>>]

PostProcess ==
  /\ fn.pc = "called"
  /\ fn' = [fn EXCEPT !.pc = "returned", !.ret = postProcessReply(fn.reply)]
  /\ UNCHANGED <<session, persona, kb, registry>>

SpecPostProcess == InitPostProcess /\ [][PostProcess]_vars

(***************************************************************************)
(* The session registry: the Map sessions of the server and the            *)
(* connections it accepted, each with the callSid of its URL, the          *)
(* readyState of its socket and whether its stop event has been handled.   *)
(* sessions maps a callSid to the connection whose session object it       *)
(* holds, 0 when it has no entry.                                          *)
(***************************************************************************)
CallSids == {"c1", "c2"}

InitRegistry ==
  /\ NewSession /\ persona = PersonaAtLoad /\ kb = KbAtLoad /\ fn = NoCall
  /\ registry = [op |-> "serve", conns |-> <<>>, sessions |-> [c \in CallSids |-> 0]]

\* wss.on("connection"): sessions.set(callSid, session)
Accepted(g, callSid) ==
  [g EXCEPT !.conns = Append(@, [callSid |-> callSid, readyState |-> WsOpen,
                                 stopped |-> FALSE]),
            !.sessions[callSid] = Len(g.conns) + 1]

\* handleStopEvent of connection i: sessions.delete(session.callId), ws.close()
StopHandled(g, i) ==
  [g EXCEPT !.conns[i].stopped = TRUE,
            !.conns[i].readyState = IF @ = WsOpen THEN WsClosing ELSE @,
            !.sessions[g.conns[i].callSid] = 0]

\* ws.on("close") of connection i: sessions.delete(callSid)
Closed(g, i) ==
  [g EXCEPT !.conns[i].readyState = WsClosed,
            !.sessions[g.conns[i].callSid] = 0]

Accept(callSid) ==
  /\ Len(registry.conns) < MaxConns
  /\ registry' = Accepted(registry, callSid)
  /\ UNCHANGED <<session, persona, kb, fn>>

StopEvent(i) ==
  /\ registry.conns[i].readyState # WsClosed
  /\ registry' = StopHandled(registry, i)
  /\ UNCHANGED <<session, persona, kb, fn>>

CloseEvent(i) ==
  /\ registry.conns[i].readyState # WsClosed
  /\ registry' = Closed(registry, i)
  /\ UNCHANGED <<session, persona, kb, fn>>

NextRegistry ==
  \/ \E c \in CallSids : Accept(c)
  \/ \E i \in 1..Len(registry.conns) : StopEvent(i)
  \/ \E i \in 1..Len(registry.conns) : CloseEvent(i)

SpecRegistry == InitRegistry /\ [][NextRegistry]_vars

(***************************************************************************)
(* The onToken closure of one turn fed with a reply split into deltas: the *)
(* turn with its token buffer and the streamTTSAudio calls it makes, none  *)
(* of which settles meanwhile.                                             *)
(***************************************************************************)
SpokenReplies ==
  UNION {[1..n -> {"a", ".", " "}] : n \in 1..MaxSpoken}
    \cup {[k \in 1..LongReplyLen |-> IF k % LongWord = 0 THEN " " ELSE "a"]}

InitSplit ==
  /\ NewSession /\ persona = PersonaAtLoad /\ kb = KbAtLoad /\ registry = NoServer
  /\ \E reply \in SpokenReplies :
       fn = [op |-> "onToken", pc |-> "stream", reply |-> reply, pos |-> 0,
             tokens |-> 0,
             r |-> [turns |-> <<[NewTurn EXCEPT !.pc = "llm"]>>, streams |-> <<>>]]

\* the stream delivers the next n characters of the reply as one delta
Token(n) ==
  /\ fn.op = "onToken" /\ fn.pc = "stream"
  /\ fn.pos + n <= Len(fn.reply)
  /\ fn' = [fn EXCEPT !.pos = @ + n, !.tokens = @ + 1,
                      !.r = onToken(@, 1, SubSeq(fn.reply, fn.pos + 1, fn.pos + n))]
  /\ UNCHANGED <<session, persona, kb, registry>>

\* the stream ends: onToken('', true)
TokensComplete ==
  /\ fn.op = "onToken" /\ fn.pc = "stream"
  /\ fn.pos = Len(fn.reply)
  /\ fn' = [fn EXCEPT !.pc = "complete", !.r = onTokenComplete(@, 1)]
  /\ UNCHANGED <<session, persona, kb, registry>>

NextSplit ==
  \/ \E n \in 1..LongReplyLen : Token(n)
  \/ TokensComplete

SpecSplit == InitSplit /\ [][NextSplit]_vars

(***************************************************************************)
(* Properties.                                                             *)
(***************************************************************************)
MediaSent(frames) == {k \in 1..Len(frames) : frames[k].event = "media"}

ReplyMarkSent(frames) ==
  {k \in 1..Len(frames) : frames[k].event = "mark" /\ frames[k].name = "assistant_reply_done"}

Frags(t) == IdsOf(Cur, "frag", t)

\* C1: the sequence_number of the outbound media frames of a session starts
\* at 0 and grows by exactly 1 per frame, whichever stream sends the frame:
\* each frame carries the number of media frames sent before it, and the
\* counter moves only when a frame is sent.
C1_SequenceNumbers ==
  /\ sequenceNumber = 0
  /\ [][/\ \A k \in MediaSent(sent') :
             sent'[k].sequence_number
               = sequenceNumber + Cardinality({j \in MediaSent(sent') : j < k})
        /\ sequenceNumber' = sequenceNumber + Cardinality(MediaSent(sent'))]_vars

\* a greeting and a turn fragment are both in their chunk loops, both have
\* sent frames, and the last step sent one more
C1_Witness ==
  /\ MediaSent(sent) # {}
  /\ sequenceNumber >= 3
  /\ \E g \in IdsOf(Cur, "greeting", 0), t \in 1..Len(turns) : \E f \in Frags(t) :
       /\ streams[g].pc = "loop" /\ streams[g].emitted
       /\ streams[f].pc = "loop" /\ streams[f].emitted

\* C2: every outbound media frame is sent while stream_sid is known.
C2_StreamSidKnown ==
  \A k \in MediaSent(sent) : sent[k].stream_sid # Null

\* C3: once set, stream_sid never changes.
C3_StreamSidPinned ==
  [][streamSid # Null => streamSid' = streamSid]_vars

\* C4: within a turn no fragment sends a media frame once a fragment flushed
\* after it has sent one.
C4_FragmentsInOrder ==
  [][\A k \in MediaSent(sent') :
       LET id == sent'[k].src
       IN Kind(id) = "frag" =>
            \A later \in Frags(TurnOf(id)) : later[3] > id[3] => ~streams[later].emitted]_vars

\* C5: while a turn is running (it has not returned, or one of the fragments
\* it flushed has not finished streaming) no other turn of the session is.
C5_OneTurnAtATime ==
  \A t1, t2 \in 1..Len(turns) : t1 < t2 => ~(Running(Cur, t1) /\ Running(Cur, t2))

\* C6: a greeting or fragment that was in its chunk loop when a clear event
\* arrived sends no further media frame.
C6_BargeInHaltsStream ==
  [][\A k \in MediaSent(sent') :
       LET id == sent'[k].src
       IN id \in DOMAIN streams /\ Kind(id) # "silence" => ~streams[id].preempted]_vars

\* C7: an utterance that was in its chunk loop when a clear event arrived
\* does not send its assistant_reply_done mark.
C7_NoMarkAfterBargeIn ==
  [][\A k \in ReplyMarkSent(sent') : ~streams[sent'[k].src].preempted]_vars

\* C8: a fragment flushed after a clear event arrived during the LLM reply
\* of its turn sends no media frame.
C8_NoFragmentAfterBargeIn ==
  \A k \in MediaSent(sent) : ~streams[sent[k].src].late

\* C9: a turn whose LLM stream completed with a non-empty reply, without
\* barge-in and without TTS failure, has sent exactly one assistant_reply_done
\* mark once all its fragments have finished.
C9_ExactlyOneMark ==
  \A t \in 1..Len(turns) :
    (/\ turns[t].pc = "done" /\ turns[t].replied /\ ~turns[t].barged
     /\ \A id \in Frags(t) : streams[id].pc = "done")
    => Cardinality({id \in Frags(t) : streams[id].marked}) = 1

\* C10: after a stop event has been handled or the socket has closed, no
\* media or mark frame is sent.
C10_NoFrameAfterTermination ==
  sent # <<>> => ~stopped /\ wsState = WsOpen

\* a stop event has been handled while a stream that had sent frames was in
\* its chunk loop, and that stream has since returned without its mark
C10_Witness ==
  /\ stopped
  /\ \E id \in DOMAIN streams :
       /\ Kind(id) = "greeting" /\ streams[id].pc = "done"
       /\ streams[id].emitted /\ ~streams[id].marked
  /\ ~pendingClear

\* C11: once a stop event has been handled while a turn was in flight, that
\* turn makes no further request: it does not go on from STT to the LLM call,
\* no TTS fragment of it enters synthesis, and it leaves the conversation
\* history as it was.
C11_StopCancelsTurn ==
  [][\A t \in 1..Len(turns) :
       turns[t].stoppedInFlight =>
         /\ turns'[t].pc \in {turns[t].pc, "done"}
         /\ conversationHistory' = conversationHistory
         /\ \A id \in IdsOf(Cur, "frag", t) :
              streams'[id].pc = "synth" => streams[id].pc = "synth"]_vars

\* greeting_state as the two flags of the session encode it
GreetingState ==
  IF greetingInProgress THEN "in_progress"
  ELSE IF greetingSent THEN "done" ELSE "pending"

Greetings == IdsOf(Cur, "greeting", 0)

\* C12: greeting_state moves pending -> in_progress -> done, goes back to
\* pending only when the in-progress greeting fails, and done is absorbing:
\* no event starts a greeting stream after one completed; at most one
\* greeting stream is in flight, and only in state in_progress.
C12_GreetingForward ==
  [][LET after == {g \in DOMAIN streams' : Kind(g) = "greeting"}
         inFlight == {g \in after : ~Settled(streams'[g])}
     IN /\ GreetingState = "pending" => GreetingState' \in {"pending", "in_progress"}
        /\ GreetingState = "in_progress" =>
             \/ GreetingState' = "in_progress" /\ after = Greetings
             \/ GreetingState' = "done"
                  /\ \E g \in Greetings : streams[g].pc # "done" /\ streams'[g].pc = "done"
             \/ GreetingState' = "pending"
                  /\ \E g \in Greetings : streams[g].pc # "failed" /\ streams'[g].pc = "failed"
        /\ GreetingState = "done" => GreetingState' = "done" /\ after = Greetings
        /\ Cardinality(inFlight) <= (IF GreetingState' = "in_progress" THEN 1 ELSE 0)]_vars

\* a first greeting failed, a retry completed after sending audio, and the
\* call is still active with its stream_sid known
C12_Witness ==
  /\ GreetingState = "done" /\ isActive /\ streamSid # Null /\ wsState = WsOpen
  /\ \E g1, g2 \in Greetings :
       /\ streams[g1].pc = "failed"
       /\ streams[g2].pc = "done" /\ streams[g2].emitted /\ streams[g2].marked

\* C13: the event that first yields a non-null stream_sid starts the pending
\* greeting, also when that event is a media frame arriving before any
\* connected or start event.
C13_GreetingOnFirstStreamSid ==
  [][streamSid = Null /\ streamSid' # Null /\ GreetingState = "pending"
       => GreetingState' = "in_progress"]_vars

\* C14: a failing greeting attempt returns the greeting to pending only if
\* that attempt had sent no media frame: greetingSent is cleared only in a
\* step in which a greeting stream that has sent nothing fails.
C14_RevertOnlyIfSilent ==
  [][greetingSent /\ ~greetingSent' =>
       \E g \in Greetings :
         /\ ~Settled(streams[g]) /\ streams'[g].pc = "failed"
         /\ ~streams'[g].emitted]_vars

\* a first attempt failed before sending anything and put the greeting back
\* to pending; the retry sent audio, was cut short by the end of the call
\* and left the greeting done
C14_Witness ==
  /\ GreetingState = "done"
  /\ \E g1, g2 \in Greetings :
       /\ streams[g1].pc = "failed" /\ ~streams[g1].emitted
       /\ streams[g2].pc = "done" /\ streams[g2].emitted /\ ~streams[g2].marked

RECURSIVE TotalBytes(_)
TotalBytes(chunks) ==
  IF chunks = <<>> THEN 0 ELSE Head(chunks) + TotalBytes(Tail(chunks))

\* one second of 16-bit PCM, cut into chunks
OneSecond == chunkPCM(SampleRate * 2, ChunkSize)

\* C15: when a greeting fails while the session is active, the socket open
\* and stream_sid known, a fallback silence starts in the same step; its
\* media frames are, in order, the chunks of one second of PCM (SampleRate * 2
\* bytes in total), each carrying the session's stream_sid and the next
\* sequence number; with the socket open it ends only after the last chunk.
C15_SilenceKeepalive ==
  /\ TotalBytes(OneSecond) = SampleRate * 2
  /\ [][/\ \A g \in Greetings :
            (/\ ~Settled(streams[g]) /\ streams'[g].pc = "failed"
             /\ isActive /\ wsState = WsOpen /\ streamSid # Null)
            => \E id \in DOMAIN streams' \ DOMAIN streams :
                 /\ Kind(id) = "silence"
                 /\ \E k \in MediaSent(sent') : sent'[k].src = id
        /\ \A k \in MediaSent(sent') :
            LET id == sent'[k].src
                done == IF id \in DOMAIN streams THEN streams[id].i ELSE 0
            IN Kind(id) = "silence" =>
                 /\ sent'[k].stream_sid = streamSid /\ streamSid # Null
                 /\ sent'[k].sequence_number = sequenceNumber
                 /\ done < Len(OneSecond)
                 /\ sent'[k].bytes = OneSecond[done + 1]
        /\ \A id \in DOMAIN streams :
            (/\ Kind(id) = "silence" /\ streams[id].pc = "loop"
             /\ streams'[id].pc = "done" /\ wsState = WsOpen)
            => streams[id].i = Len(OneSecond)]_vars

\* a fallback silence has run to its end on an open socket
C15_Witness ==
  \E id \in DOMAIN streams :
    /\ Kind(id) = "silence" /\ streams[id].pc = "done"
    /\ streams[id].emitted /\ streams[id].marked
    /\ wsState = WsOpen /\ isActive

\* C16: while isActive is false, handling an inbound media frame leaves the
\* inbound audio buffer as it was.
C16_InactiveBufferClosed ==
  ~isActive =>
    \A sid \in Sids, payload \in {Speech, Zeros} :
      handleMediaEvent(Cur, sid, "inbound", payload).audioBuffer = audioBuffer

\* C17: a non-empty conversation history has the system prompt as its first
\* entry.
C17_SystemPromptFirst ==
  conversationHistory # <<>> => conversationHistory[1] = "system"

\* two turns have appended their replies after the system prompt
C17_Witness ==
  conversationHistory = <<"system", "assistant", "assistant">>

\* C18: when a turn completes with a non-empty reply, the conversation
\* history ends with the turn's user entry followed by its assistant entry.
C18_UserThenAssistant ==
  [][\A t \in 1..Len(turns) :
       ~turns[t].replied /\ turns'[t].replied =>
         LET h == conversationHistory'
         IN /\ Len(h) >= 2
            /\ h[Len(h) - 1] = "user"
            /\ h[Len(h)] = "assistant"]_vars

\* fewer than 5% of the 16-bit samples of a buffer of that many bytes are
\* above the amplitude threshold
Quiet(bytes, loud) == loud * 100 < 5 * (bytes \div 2)

FragFrames(frames) == {k \in MediaSent(frames) : Kind(frames[k].src) = "frag"}

\* C19: a buffer snapshot with fewer than 5% of its samples above the
\* threshold never reaches STT: no turn is waiting on STT with such a
\* snapshot, and in every state a media or stop event whose snapshot is
\* that quiet starts no turn and sends no media.
C19_SilenceGate ==
  /\ \A t \in 1..Len(turns) :
       turns[t].pc = "stt" =>
         ~Quiet(turns[t].combinedAudio.bytes, turns[t].combinedAudio.loud)
  /\ \A sid \in Sids, payload \in {Speech, Zeros} :
       LET snapshot == Append(audioBuffer, payload)
           r == handleMediaEvent(Cur, sid, "inbound", payload)
       IN Quiet(SumOf(snapshot, "bytes"), SumOf(snapshot, "loud")) =>
            r.turns = turns /\ FragFrames(r.sent) = {}
  /\ LET r == handleStopEvent(Cur)
     IN Quiet(SumOf(audioBuffer, "bytes"), SumOf(audioBuffer, "loud")) =>
          Len(r.turns) = Len(turns) /\ FragFrames(r.sent) = {}

\* the buffer holds two seconds of silence received during an earlier turn
\* and no turn is in flight: the next media or stop event takes a silent
\* snapshot
C19_Witness ==
  /\ audioBuffer = <<Zeros>> /\ ~processingAudio
  /\ Len(turns) > 0

\* C20: in every state, handling a media event whose track is outbound
\* leaves the inbound audio buffer as it was and starts no turn.
C20_OutboundDiscarded ==
  \A sid \in Sids, payload \in {Speech, Zeros} :
    LET r == handleMediaEvent(Cur, sid, "outbound", payload)
    IN /\ r.audioBuffer = audioBuffer
       /\ r.turns = turns
       /\ r.processingAudio = processingAudio

\* audio is buffered and no turn is in flight on an active call: an inbound
\* frame would now start a turn
C20_Witness ==
  /\ isActive /\ wsState = WsOpen /\ streamSid # Null
  /\ audioBuffer # <<>> /\ ~processingAudio
  /\ handleMediaEvent(Cur, Null, "inbound", Speech).turns # turns

\* the session is registered, active and open as it was before the step
SessionKept ==
  /\ registered' = registered
  /\ isActive' = isActive
  /\ wsState' = wsState

\* C21: a failure inside a turn (STT returns null, the LLM request fails,
\* synthesis of a fragment fails) leaves the session registered and active
\* and processingAudio is cleared in the step in which the turn returns; the
\* flag is never set while no turn is in flight; and whenever the flag is
\* clear, a media event that brings the buffer to the threshold runs
\* processUserAudio again, which starts a turn unless it ends early at the
\* barge-in check or at the silence gate.
C21_RecoversFromFailure ==
  /\ [][/\ \A t \in 1..Len(turns) :
             turns[t].pc # "done" /\ turns'[t].pc = "done" =>
               ~processingAudio' /\ SessionKept
        /\ \A id \in DOMAIN streams :
             streams[id].pc = "synth" /\ streams'[id].pc = "failed" => SessionKept]_vars
  /\ [](processingAudio => \E t \in 1..Len(turns) : turns[t].pc # "done")
  /\ [](~processingAudio =>
          \A sid \in Sids, payload \in {Speech, Zeros} :
            LET snapshot == Append(audioBuffer, payload)
                r == handleMediaEvent(Cur, sid, "inbound", payload)
            IN /\ r.audioBuffer = <<>>
               /\ \/ pendingClear /\ Len(r.turns) = Len(turns)
                  \/ MostlySilence(snapshot) /\ Len(r.turns) = Len(turns)
                  \/ /\ Len(r.turns) = Len(turns) + 1
                     /\ r.turns[Len(r.turns)].pc = "stt"
                     /\ r.processingAudio)

\* a turn has returned without a reply on a call that is still registered
\* and active, its flag is clear, and the next two seconds of speech start
\* a second turn
C21_Witness ==
  /\ Len(turns) = 1 /\ turns[1].pc = "done" /\ ~turns[1].replied
  /\ registered /\ isActive /\ ~processingAudio /\ ~pendingClear
  /\ handleMediaEvent(Cur, Null, "inbound", Speech).turns[2].pc = "stt"

\* C22: once the synthesis of a fragment of a turn has failed, no later
\* fragment of that turn sends a media frame and the turn sends no
\* assistant_reply_done mark.
C22_FailureAbortsTurn ==
  [][\A k \in 1..Len(sent') :
       LET id == sent'[k].src
       IN Kind(id) = "frag" =>
            \A f \in Frags(TurnOf(id)) :
              streams[f].pc = "failed" =>
                /\ k \in MediaSent(sent') => id[3] <= f[3]
                /\ k \notin ReplyMarkSent(sent')]_vars

C24_PersonaFresh ==
  \A l \in 1..Len(persona.loads) :
    persona.loads[l].pc = "returned" /\ persona.loads[l].expect.owed =>
      persona.loads[l].ret = persona.loads[l].expect.content

\* C25: a chunk load called after an upload or delete has completed (no
\* write being in flight, none started before the load returns) returns the
\* chunks of the documents that are in the store.
C25_ChunksCurrent ==
  \A l \in 1..Len(kb.loads) :
    kb.loads[l].pc = "returned" /\ kb.loads[l].expect.owed =>
      kb.loads[l].ret = kb.loads[l].expect.chunks

\* the place of chunk i in a result, 0 when it is not in it
Place(ret, i) ==
  IF \E k \in 1..Len(ret) : ret[k] = i THEN CHOOSE k \in 1..Len(ret) : ret[k] = i ELSE 0

\* C26: when the query phrase is in chunk A and chunk B has words of the
\* query but not the phrase, getRelevantChunks returns A, and before B.
C26_PhraseOutranks ==
  fn.pc = "returned" =>
    \A a \in 1..Len(fn.chunks), b \in 1..Len(fn.chunks) :
      /\ queryWords(fn.query) # <<>>
      /\ Includes(fn.chunks[a].words, fn.query)
      /\ ~Includes(fn.chunks[b].words, fn.query)
      /\ SumMatches(fn.chunks[b].words, queryWords(fn.query)) > 0
      => /\ Place(fn.ret, a) > 0
         /\ Place(fn.ret, b) > 0 => Place(fn.ret, a) < Place(fn.ret, b)

RECURSIVE Concat(_)
Concat(chunks) == IF chunks = <<>> THEN <<>> ELSE Head(chunks) \o Concat(Tail(chunks))

\* C27: chunkPCM is lossless and ordered: the frames concatenated in order
\* are the buffer, no frame is longer than the frame size, and every frame
\* but the last has exactly the frame size; with the frame size of the
\* server, a multiple of 320, every frame but the last of a synthesized
\* utterance is a multiple of 320 bytes.
C27_LosslessFraming ==
  /\ fn.pc = "returned" =>
       /\ Concat(fn.ret) = fn.pcm
       /\ \A k \in 1..Len(fn.ret) : Len(fn.ret[k]) >= 1 /\ Len(fn.ret[k]) <= fn.size
       /\ \A k \in 1..(Len(fn.ret) - 1) : Len(fn.ret[k]) = fn.size
       /\ chunkPCM(Len(fn.pcm), fn.size) = [k \in 1..Len(fn.ret) |-> Len(fn.ret[k])]
  /\ ChunkSize % 320 = 0
  /\ \A len \in PcmLens \cup {SampleRate * 2} :
       /\ TotalBytes(chunkPCM(len, ChunkSize)) = len
       /\ \A k \in 1..(Len(chunkPCM(len, ChunkSize)) - 1) :
            chunkPCM(len, ChunkSize)[k] = ChunkSize

\* a buffer of both byte values that does not divide into whole frames: the
\* last of its frames is shorter than the others
C27_Witness ==
  /\ fn.pc = "returned" /\ Len(fn.ret) >= 2
  /\ Len(fn.ret[Len(fn.ret)]) < fn.size
  /\ \E j, k \in 1..Len(fn.pcm) : fn.pcm[j] # fn.pcm[k]

\* C28: chunkText terminates: every call returns, every pass of its loop
\* starts inside the text, and the window of each next pass starts strictly
\* after the window of the pass before.
C28_ChunkerTerminates ==
  /\ <>(fn.pc = "returned")
  /\ [](fn.pc = "loop" => fn.start < Len(fn.text))
  /\ [][fn.pc = "loop" /\ fn'.pc = "loop" => fn'.start > fn.start]_vars

\* a call in which a window ended early at a full stop, so that its end
\* less the overlap was not after its start, and the next window started
\* one character on
C28_Witness ==
  /\ fn.pc = "returned"
  /\ \E k \in 1..(Len(fn.chunks) - 1) :
       /\ fn.chunks[k].to - fn.overlap <= fn.chunks[k].from
       /\ fn.chunks[k + 1].from = fn.chunks[k].from + 1
       /\ \A i \in 1..Len(fn.text) : ~IsSpace(fn.text[i])

\* C29: the chunks chunkText returns cover the text: every character that is
\* not white space lies in one of them.
C29_ChunkerCovers ==
  fn.pc = "returned" =>
    \A i \in 0..(Len(fn.text) - 1) :
      ~IsSpace(fn.text[i + 1]) =>
        \E k \in 1..Len(fn.chunks) : fn.chunks[k].from <= i /\ i < fn.chunks[k].to

\* C30: the session never rests with two seconds of audio or more in its
\* buffer while no turn is in flight.
C30_NoRestAtThreshold ==
  ~processingAudio => SumOf(audioBuffer, "bytes") < Threshold

\* C31: a stop event that arrives while the inbound buffer is not empty has
\* that audio taken by one run of the turn pipeline, whether or not a turn
\* is in flight: the step that handles the stop empties the buffer.
C31_StopFlushesResidue ==
  [][~stopped /\ stopped' /\ audioBuffer # <<>> => audioBuffer' = <<>>]_vars

\* the texts of the calls onToken(text, false), in order
Tokens(calls) ==
  LET F[k \in 0..Len(calls)] ==
        IF k = 0 THEN <<>>
        ELSE IF calls[k].isComplete THEN F[k - 1] ELSE F[k - 1] \o calls[k].text
  IN F[Len(calls)]

Completions(calls) == {k \in 1..Len(calls) : calls[k].isComplete}

\* C32: for every outcome of the stream (a reply, a stream that ends without
\* any delta, an HTTP error, an error in the middle of the stream) onToken is
\* called with is_complete = true exactly once, after every call with
\* is_complete = false.
C32_CompletesOnce ==
  fn.op = "generateWithGeminiStreaming" /\ fn.pc = "returned"
    => Completions(fn.calls) = {Len(fn.calls)}

\* the delta texts of a line that is a well-formed data line
DeltasOf(line) ==
  IF line # <<>> /\ Head(line) = "D" /\ ParseData(DataOf(line)).ok
  THEN ParseData(DataOf(line)).parts ELSE <<>>

RECURSIVE DeltasOfAll(_)
DeltasOfAll(lines) ==
  IF lines = <<>> THEN <<>> ELSE DeltasOf(Head(lines)) \o DeltasOfAll(Tail(lines))

AllDeltas(stream) ==
  LET s == SplitLines(stream, <<>>) IN DeltasOfAll(Append(s.lines, s.rest))

\* the step of a stream that was read to its end
StreamEnds == fn.pc = "read" /\ fn.pos = Len(fn.stream) /\ fn' = OnDone(fn)

\* C33: when the stream has ended, the texts given to onToken(.., false) are
\* the delta texts of all the well-formed data lines of the stream, in
\* order, the text of a line that also has a finish reason included, and
\* they add up to the full reply.
C33_TokensAreDeltas ==
  [][StreamEnds => /\ Tokens(fn'.calls) = AllDeltas(fn.stream)
                   /\ fn'.fullReply = AllDeltas(fn.stream)]_vars

\* the same body taken in one read
OneRead(stream) == OnDone(OnRead([CallGemini(stream) EXCEPT !.pc = "read"], stream))

\* C34: for a given body the tokens delivered and the full reply are the same
\* for every way of splitting the body into successive reads.
C34_SplitInvariant ==
  [][StreamEnds => /\ fn'.calls = OneRead(fn.stream).calls
                   /\ fn'.fullReply = OneRead(fn.stream).fullReply]_vars

C34_Witness ==
  /\ fn.op = "generateWithGeminiStreaming" /\ fn.pc = "returned"
  /\ fn.pos = Len(fn.stream) /\ fn.carried
  /\ Len(fn.calls) >= 3 /\ Completions(fn.calls) = {Len(fn.calls)}

\* C35: for every reply text that is not empty, the post-processed reply has
\* at most 300 characters and ends with one of . ! ?
C35_ShortAndEnded ==
  fn.op = "postProcessReply" /\ fn.pc = "returned"
    => /\ Len(fn.ret) <= ReplyLimit
       /\ fn.ret # <<>> /\ IsEnder(fn.ret[Len(fn.ret)])

\* the streams that are inside their chunk loop
Writers == {id \in DOMAIN streams : streams[id].pc = "loop"}

\* C36: at any time at most one PCM streaming loop of the session (greeting,
\* turn fragment or fallback silence) is emitting frames, so the frames of
\* the greeting and those of a reply never interleave.
C36_SingleWriter == Cardinality(Writers) <= 1

\* no outbound audio is being produced and no turn is in flight
Idle ==
  /\ \A id \in DOMAIN streams : Settled(streams[id])
  /\ \A t \in 1..Len(turns) : turns[t].pc = "done"
  /\ ~processingAudio

\* C37: a clear event received while no outbound audio is streaming and no
\* turn is in flight leaves nothing behind that could cut a later greeting or
\* fragment short or discard the audio of a later turn: a step taken while
\* the session is idle does not set the barge-in flag.
C37_ClearWhileIdle ==
  [][Idle /\ ~pendingClear => ~pendingClear']_vars


\* C38: every connection whose socket is open and which has not handled a
\* stop event is in the registry under its call id, and the entry for that
\* call id is that connection's session, for any interleaving of accepts,
\* stops and closes, two connections with the same call id included.
C38_RegistryConsistent ==
  registry.op = "serve" =>
    \A i \in 1..Len(registry.conns) :
      registry.conns[i].readyState = WsOpen /\ ~registry.conns[i].stopped
        => registry.sessions[registry.conns[i].callSid] = i

\* C39: a load of the persona for one name never returns the content of a
\* different persona that an earlier load left in the cache: a load answered
\* from a cache filled for another name still returns what the store held
\* for its own name when it was called.
C39_LoadByName ==
  \A l \in 1..Len(persona.loads) :
    LET ld == persona.loads[l]
    IN ld.pc = "returned" /\ ld.hit /\ ld.cachedFor # ld.name
         => ld.stored.found /\ ld.ret = ld.stored.content

\* the texts of the fragments of the turn, in the order of their flushes
Fragments(r) ==
  [x \in 1..Cardinality(IdsOf(r, "frag", 1)) |-> r.streams[<<"frag", 1, x>>].text]

\* text is the fragments in order, with nothing but whitespace before,
\* between and after them
RECURSIVE MadeOf(_, _)
MadeOf(text, frags) ==
  LET t == TrimLeft(text)
      f == Head(frags)
  IN IF frags = <<>> THEN t = <<>>
     ELSE /\ Len(f) <= Len(t)
          /\ SubSeq(t, 1, Len(f)) = f
          /\ MadeOf(SubSeq(t, Len(f) + 1, Len(t)), Tail(frags))

====
